---- MODULE Spec2Model ----
(***************************************************************************)
(* Room session coordinator of watch-buddy: the namespace handlers of      *)
(* server/src/index.ts (lines 211-440) over the store of                   *)
(* server/src/services/db.ts and the tables of server/db/schema.sql.       *)
(*                                                                         *)
(* Every handler is an async function.  Node runs the code between two     *)
(* awaits without interruption, and every awaited store call is one SQL    *)
(* statement sent through the pg pool, atomic at the database.  A handler  *)
(* in flight is a task; one step of a task is the effect of the statement  *)
(* it awaits followed by the synchronous code up to the next await.  Steps *)
(* of different tasks interleave freely.                                   *)
(***************************************************************************)
EXTENDS Integers, Sequences, FiniteSets, TLC

\* ------------------------------------------------------------------ bounds

\* Handler invocations (events received, disconnects) in one run of Spec.
MaxTasks == 2
\* Handler invocations in one run of SpecMerge.
MaxMergeTasks == 2
\* Handler invocations in one run of SpecPresence.
MaxPresenceTasks == 2
\* Handler invocations in one run of SpecRooms.
MaxRoomsTasks == 2
\* Handler invocations in one run of SpecSnapshot.
MaxSnapshotTasks == 3
\* Handler invocations in one run of SpecVideo.
MaxVideoTasks == 2
\* Handler invocations in one run of SpecRelay.
MaxRelayTasks == 2
\* Handler invocations in one run of SpecChat.
MaxChatTasks == 2
\* Handler invocations in one run of SpecSignal.
MaxSignalTasks == 3
\* Handler invocations in one run of SpecReaper, and how far its clock runs.
MaxReaperTasks == 2
MaxReaperClock == 3
\* Handler invocations in one run of SpecState.
MaxStateTasks == 2
\* Handler invocations in one run of SpecRebind.
MaxRebindTasks == 2
\* Handler invocations in one run of SpecClient.
MaxClientTasks == 3
\* 10 * 60 * 1000 ms, in units of the model clock (one unit is five minutes).
IdleMs == 2
\* Largest value of the server clock (Date.now()).
MaxClock == 1
\* Store statements that fail in one run.
MaxFaults == 1

\* ------------------------------------------------------------------ values

Rooms == {"r1", "r2"}
Conns == {"c1", "c2", "c3"}

\* A JavaScript value is a tuple whose length tells its sort, so that values
\* of different sorts compare unequal: a missing key, undefined, null, or a
\* proper value v.
Absent == <<>>
Undef == <<0, 0>>
Null == <<0, 0, 0>>
V(v) == <<v>>

Fields == {"source", "isPlaying", "time", "lastActionTs", "playlist", "theme"}

\* {}: the object with no key.
EmptyObj == [f \in Fields |-> Absent]

\* The `null` a store read returns for a missing row.
NoState == [f \in Fields |-> Undef]

\* The defaults written without a theme.
defaultStateNoTheme ==
    [source |-> <<0, 0, 0>>, isPlaying |-> <<FALSE>>, time |-> <<0>>,
     playlist |-> << <<>> >>, theme |-> <<>>, lastActionTs |-> <<>>]

defaultState ==
    [source |-> Null, isPlaying |-> V(FALSE), time |-> V(0),
     lastActionTs |-> Absent, playlist |-> V(<<>>), theme |-> V("default")]

\* { ...a, ...b }: every own key of b, also one holding undefined, overrides a.
Spread(a, b) == [f \in Fields |-> IF b[f] = Absent THEN a[f] ELSE b[f]]

\* obj.f : a missing key reads as undefined.
Get(obj, f) == IF obj[f] = Absent THEN Undef ELSE obj[f]

\* JSON.stringify of the JSONB parameter: keys holding undefined are dropped.
ToJSON(obj) == [f \in Fields |-> IF obj[f] = Undef THEN Absent ELSE obj[f]]

\* x || y on values: undefined and null are falsy (sources are objects).
OrElse(x, y) == IF x \in {Absent, Undef, Null} THEN y ELSE x

\* Coalesce written with || : a target time of 0 counts as not supplied.
CoalesceFalsy(x, y) == IF x \in {Absent, Undef, Null, V(0)} THEN y ELSE x

\* x ?? y on values: undefined and null are nullish, 0 is not.
Coalesce(x, y) == IF x \in {Absent, Undef, Null} THEN y ELSE x

\* The namespace /room/<roomId> a connection was opened on.
nsRoom(c) == IF c = "c3" THEN "r2" ELSE "r1"

VARIABLES
    rooms,      \* table rooms: id -> [exists, state, last_active]
    members,    \* table members: rows [room_id, uuid, name, avatar]
    chats,      \* table chats: rows [id, room_id, sender, text, reactions, ts]
    sock,       \* namespace sockets: [status, data, seq]
    inbox,      \* what each namespace connection has received, in order
    mainEmits,  \* what was emitted to rooms of the default namespace "/"
    tasks,      \* handlers in flight or finished, in the order received
    now,        \* the server clock
    faults      \* store statements that have failed

db == <<rooms, members, chats>>
net == <<sock, inbox, mainEmits>>
vars == <<rooms, members, chats, sock, inbox, mainEmits, tasks, now, faults>>

\* ------------------------------------------------------------------- store

NoRow == [exists |-> FALSE, state |-> EmptyObj, last_active |-> 0]

\* The SELECT, returned as stored: not merged over the defaults.
readStateRaw(table, r) ==
    IF ~table[r].exists THEN NoState ELSE table[r].state

\* SELECT state FROM rooms WHERE id = $1, merged over the defaults.
readState(table, r) ==
    IF ~table[r].exists THEN NoState ELSE Spread(defaultState, table[r].state)

getRoomState(r) == readState(rooms, r)

\* upsertMerge without the read: the partial is merged into the defaults.
upsertMergeOntoDefaults(r, partialState) == Spread(defaultState, partialState)

\* upsertRoomState, first statement: the state the partial is merged into.
upsertMerge(r, partialState) ==
    LET got == getRoomState(r)
        existingState == IF got = NoState THEN defaultState ELSE got
    IN  Spread(existingState, partialState)

\* upsertRoomState, second statement: INSERT ... ON CONFLICT (id) DO UPDATE.
upsertWrite(r, mergedState, ts) ==
    [rooms EXCEPT ![r] = [exists |-> TRUE, state |-> ToJSON(mergedState),
                          last_active |-> ts]]

\* UPDATE rooms SET last_active = $1 WHERE id = $2.
touchRoom(r, ts) ==
    IF rooms[r].exists THEN [rooms EXCEPT ![r].last_active = ts] ELSE rooms

\* The INSERT with ON CONFLICT (room_id, uuid) DO NOTHING: the first
\* registration's name and avatar stay.
addMemberKeepFirst(r, m) ==
    IF \E x \in members : x.room_id = r /\ x.uuid = m.uuid
    THEN members
    ELSE members \cup
            {[room_id |-> r, uuid |-> m.uuid, name |-> m.name, avatar |-> m.avatar]}

\* INSERT INTO members ... ON CONFLICT (room_id, uuid) DO UPDATE SET name, avatar.
addMember(r, m) ==
    {x \in members : ~(x.room_id = r /\ x.uuid = m.uuid)}
        \cup {[room_id |-> r, uuid |-> m.uuid, name |-> m.name, avatar |-> m.avatar]}

\* DELETE FROM members WHERE room_id = $1 AND uuid = $2.
removeMember(r, u) == {x \in members : ~(x.room_id = r /\ x.uuid = u)}

\* SELECT uuid, name, avatar FROM members WHERE room_id = $1.
getUsersInRoom(r) ==
    {[uuid |-> x.uuid, name |-> x.name, avatar |-> x.avatar] :
        x \in {y \in members : y.room_id = r}}

\* What node-postgres returns for a BIGINT column: the decimal string.
DecStr(n) == <<"decimal", n>>

\* SELECT id, room_id, sender, text, reactions, ts FROM chats WHERE room_id = $1
\* ORDER BY ts ASC, each row mapped to { id, sender, text, ts, reactions }.
\* The order of the rows is left out: the history is the set of its entries.
getChatHistory(r) ==
    {[id |-> x.id, sender |-> x.sender, text |-> x.text, ts |-> DecStr(x.ts),
      reactions |-> x.reactions] : x \in {y \in chats : y.room_id = r}}

\* INSERT INTO chats (id, room_id, sender, text, reactions, ts).
saveChat(r, entry) ==
    chats \cup {[id |-> entry.id, room_id |-> r, sender |-> entry.sender,
                 text |-> entry.text, reactions |-> entry.reactions,
                 ts |-> entry.ts]}

\* ----------------------------------------------------------------- sockets

NoData == [set |-> FALSE, uuid |-> "", name |-> "", avatar |-> "", roomId |-> ""]

\* Sockets of the namespace that are in room r: every socket joins the room
\* of its namespace on connection and leaves it when it disconnects.
InRoom(r) == {c \in Conns : sock[c].status = "open" /\ nsRoom(c) = r}

\* emit to a set of connections.
Deliver(inb, targets, msg) ==
    [c \in Conns |-> IF c \in targets THEN Append(inb[c], msg) ELSE inb[c]]

\* socket.emit: dropped when the socket is no longer connected.
Self(c) == IF sock[c].status = "open" THEN {c} ELSE {}

Msg(ev, p) == [ev |-> ev, p |-> p]

\* ------------------------------------------------------------------- tasks

Idle ==
    [kind |-> "none", conn |-> "", pc |-> "idle", room |-> "", ev |-> <<>>,
     state |-> EmptyObj, merged |-> EmptyObj, la |-> 0, t0 |-> 0,
     pending |-> {}, rstate |-> EmptyObj, hist |-> {}, users |-> {},
     at |-> "", after |-> {}, deleted |-> 0]

TaskIds == 1..Len(tasks)

InFlight(t) == tasks[t].pc \notin {"done", "error", "rejected"}

\* A handler that starts: `after` records the handlers already finished.
NewTask(kind, c, pc, r, ev) ==
    [Idle EXCEPT !.kind = kind, !.conn = c, !.pc = pc, !.room = r, !.ev = ev,
                 !.after = {t \in TaskIds : ~InFlight(t)}]

\* A finished handler keeps what it was called with and how it ended.
Finish(t, how) ==
    [Idle EXCEPT !.kind = tasks[t].kind, !.conn = tasks[t].conn, !.pc = how,
                 !.room = tasks[t].room, !.ev = tasks[t].ev, !.t0 = tasks[t].t0,
                 !.at = tasks[t].pc, !.after = tasks[t].after]

Quiescent == \A t \in TaskIds : ~InFlight(t)

\* ------------------------------------------------ video:action (325-339)

StateTypes == {"play", "pause", "seek", "load"}

\* Lines 330-334: the state read, with the event's fields applied.
videoMutate(got, data, ts) ==
    LET state == IF got = NoState THEN EmptyObj ELSE got
    IN  [state EXCEPT
            !.source = OrElse(data.source, Get(state, "source")),
            !.isPlaying = IF data.type = "play" THEN V(TRUE)
                          ELSE IF data.type = "pause" THEN V(FALSE)
                          ELSE Get(state, "isPlaying"),
            !.time = Coalesce(data.targetTime, Get(state, "time")),
            !.lastActionTs = V(ts)]

\* Lines 326-330: no room bound to the socket: return.  Otherwise stamp the
\* message and, for a state-changing type, start reading the state.
VideoActionRecv(c, data) ==
    /\ sock[c].status = "open"
    /\ sock[c].data.set
    /\ tasks' = Append(tasks,
          [NewTask("video", c, IF data.type \in StateTypes THEN "read" ELSE "touch",
                   sock[c].data.roomId, data) EXCEPT !.t0 = now, !.la = now])
    /\ UNCHANGED <<db, net, now, faults>>

\* The relay written with socket.nsp.to(roomId): the sender is not left out.
videoRelayAll(t) ==
    Deliver(inbox, InRoom(tasks[t].room),
            Msg("video:action", [data |-> tasks[t].ev, serverTimeMs |-> tasks[t].t0]))

\* Line 338: socket.to(roomId).emit("video:action", msg).
videoRelay(t) ==
    Deliver(inbox, InRoom(tasks[t].room) \ {tasks[t].conn},
            Msg("video:action", [data |-> tasks[t].ev, serverTimeMs |-> tasks[t].t0]))

\* ---------------------------------------------- playlist:update (394-400)

\* Lines 395-396 written to append the payload's list to the stored one.
playlistConcat(got, data, ts) ==
    LET state == IF got = NoState THEN EmptyObj ELSE got
    IN  [state EXCEPT !.playlist =
            IF data.playlist = Absent THEN Undef
            ELSE IF Len(state.playlist) = 1
            THEN V(state.playlist[1] \o data.playlist[1])
            ELSE data.playlist]

\* Lines 395-396.
playlistMutate(got, data, ts) ==
    LET state == IF got = NoState THEN EmptyObj ELSE got
    IN  [state EXCEPT !.playlist = IF data.playlist = Absent THEN Undef
                                   ELSE data.playlist]

\* The handler takes roomId from the payload, not from the namespace.
PlaylistUpdateRecv(c, r, data) ==
    /\ sock[c].status = "open"
    /\ tasks' = Append(tasks,
          [NewTask("playlist", c, "read", r, data) EXCEPT !.t0 = now])
    /\ UNCHANGED <<db, net, now, faults>>

\* ------------------------------------------------- theme:update (402-408)

\* Lines 403-404.
themeMutate(got, data, ts) ==
    LET state == IF got = NoState THEN EmptyObj ELSE got
    IN  [state EXCEPT !.theme = IF data.theme = Absent THEN Undef ELSE data.theme]

ThemeUpdateRecv(c, r, data) ==
    /\ sock[c].status = "open"
    /\ tasks' = Append(tasks,
          [NewTask("theme", c, "read", r, data) EXCEPT !.t0 = now])
    /\ UNCHANGED <<db, net, now, faults>>

\* ------------------------------------- the steps the three handlers share

Mutators == {"video", "playlist", "theme"}

mutate(kind, got, data, ts) ==
    IF kind = "video" THEN videoMutate(got, data, ts)
    ELSE IF kind = "playlist" THEN playlistMutate(got, data, ts)
    ELSE themeMutate(got, data, ts)

\* await getRoomState(roomId) returns; the fields are set; upsertRoomState is
\* called and sends its own read.
MutRead(t) ==
    /\ tasks[t].kind \in Mutators /\ tasks[t].pc = "read"
    /\ tasks' = [tasks EXCEPT ![t].pc = "upsert_read",
                    ![t].rstate = getRoomState(tasks[t].room),
                    ![t].state = mutate(tasks[t].kind, getRoomState(tasks[t].room),
                                        tasks[t].ev, now)]
    /\ UNCHANGED <<db, net, now, faults>>

\* upsertRoomState line 32-40: the read returns, the merge is computed and the
\* INSERT is sent with Date.now() as last_active.
MutUpsertRead(t) ==
    /\ tasks[t].kind \in Mutators /\ tasks[t].pc = "upsert_read"
    /\ tasks' = [tasks EXCEPT ![t].pc = "upsert_write",
                    ![t].merged = upsertMerge(tasks[t].room, tasks[t].state),
                    ![t].la = now]
    /\ UNCHANGED <<db, net, now, faults>>

\* The INSERT takes effect; touchRoom is sent with Date.now().
MutUpsertWrite(t) ==
    /\ tasks[t].kind \in Mutators /\ tasks[t].pc = "upsert_write"
    /\ rooms' = upsertWrite(tasks[t].room, tasks[t].merged, tasks[t].la)
    /\ tasks' = [tasks EXCEPT ![t].pc = "touch", ![t].la = now]
    /\ UNCHANGED <<members, chats, net, now, faults>>

\* touchRoom takes effect; the handler emits and ends.  video:action goes to
\* the other sockets of the namespace room, playlist:update and theme:update
\* go through io, the default namespace.
MutTouch(t) ==
    /\ tasks[t].kind \in Mutators /\ tasks[t].pc = "touch"
    /\ rooms' = touchRoom(tasks[t].room, tasks[t].la)
    /\ IF tasks[t].kind = "video"
       THEN /\ inbox' = videoRelay(t)
            /\ UNCHANGED mainEmits
       ELSE /\ mainEmits' = mainEmits \cup
                  {[room |-> tasks[t].room,
                    msg |-> Msg(IF tasks[t].kind = "playlist" THEN "playlist:update"
                                ELSE "theme:update", tasks[t].ev)]}
            /\ UNCHANGED inbox
    /\ tasks' = [tasks EXCEPT ![t] = Finish(t, "done")]
    /\ UNCHANGED <<members, chats, sock, now, faults>>

\* ------------------------------------------ WebRTC signalling (222-258)

NoSocket == ""

\* The sockets of every namespace instead of the sender's.
allSockets(c) == {d \in Conns : sock[d].status = "open"}

\* The sockets of c's namespace, as Array.from(socket.nsp.sockets.values()).
nspSockets(c) == {d \in Conns : sock[d].status = "open" /\ nsRoom(d) = nsRoom(c)}

\* find with its test left out: the first socket of the namespace.
findFirstSocket(c, uuid) ==
    LET found == nspSockets(c)
    IN  IF found = {} THEN NoSocket
        ELSE CHOOSE d \in found : \A x \in found : sock[d].seq <= sock[x].seq

\* Lines 222-225: sockets.find(s => s.data?.uuid === uuid), the first match
\* in the order of the Map.
findSocketByUUID(c, uuid) ==
    LET found == {d \in nspSockets(c) : sock[d].data.set /\ sock[d].data.uuid = uuid}
    IN  IF found = {} THEN NoSocket
        ELSE CHOOSE d \in found : \A x \in found : sock[d].seq <= sock[x].seq

\* socket.data?.uuid of the sender.
fromOf(c) == IF sock[c].data.set THEN V(sock[c].data.uuid) ELSE Undef

\* if (candidate): what JavaScript takes for false among the values a
\* candidate can be (an object, a string, null, or nothing).
Falsy(x) == x \in {Absent, Undef, Null, V("")}

\* webrtc:offer and webrtc:answer forward { from, sdp }, webrtc:ice forwards
\* { from, candidate } unless the candidate is falsy.  The handlers are
\* synchronous: the whole of one is one step, recorded as a finished handler.
Signal(c, event, to, payload) ==
    /\ sock[c].status = "open"
    /\ LET target == findSocketByUUID(c, to)
       IN  IF (event = "webrtc:ice" /\ Falsy(payload)) \/ target = NoSocket
           THEN UNCHANGED inbox
           ELSE inbox' = Deliver(inbox, {target},
                            Msg(event, [from |-> fromOf(c), payload |-> payload]))
    /\ tasks' = Append(tasks,
          [NewTask("signal", c, "done", nsRoom(c),
                   [event |-> event, to |-> to, payload |-> payload])
             EXCEPT !.t0 = now])
    /\ UNCHANGED <<db, sock, mainEmits, now, faults>>

\* ---------------------------------------------------- room:join (261-323)

RoomError(what) == Msg("room:error", what)

\* Line 297: state || { source: null, isPlaying: false, time: 0 }.
stateOrFallback(got) ==
    IF got = NoState
    THEN [EmptyObj EXCEPT !.source = Null, !.isPlaying = V(FALSE), !.time = V(0)]
    ELSE got

\* Lines 263-269: upsertRoomState(roomId, {}) is called and sends its read.
RoomJoinRecv(c, data) ==
    /\ sock[c].status = "open"
    /\ tasks' = Append(tasks,
          NewTask("join", c, "ensure_read", nsRoom(c), data))
    /\ UNCHANGED <<db, net, now, faults>>

JoinEnsureRead(t) ==
    /\ tasks[t].kind = "join" /\ tasks[t].pc = "ensure_read"
    /\ tasks' = [tasks EXCEPT ![t].pc = "ensure_write",
                    ![t].merged = upsertMerge(tasks[t].room, EmptyObj),
                    ![t].la = now]
    /\ UNCHANGED <<db, net, now, faults>>

\* Line 282: what the handler binds to the socket once the room is ensured.
joinBind(t) ==
    [set |-> TRUE, uuid |-> tasks[t].ev.uuid, name |-> tasks[t].ev.name,
     avatar |-> tasks[t].ev.avatar, roomId |-> tasks[t].room]

\* The INSERT takes effect; socket.data is set (282); addMember is sent.
JoinEnsureWrite(t) ==
    /\ tasks[t].kind = "join" /\ tasks[t].pc = "ensure_write"
    /\ rooms' = upsertWrite(tasks[t].room, tasks[t].merged, tasks[t].la)
    /\ sock' = [sock EXCEPT ![tasks[t].conn].data = joinBind(t)]
    /\ tasks' = [tasks EXCEPT ![t].pc = "add"]
    /\ UNCHANGED <<members, chats, inbox, mainEmits, now, faults>>

\* Lines 307-313: the inner catch.
JoinFailed(t) ==
    /\ inbox' = Deliver(inbox, Self(tasks[t].conn), RoomError("join"))
    /\ tasks' = [tasks EXCEPT ![t] = Finish(t, "error")]

\* addMember takes effect (members.room_id REFERENCES rooms(id): the INSERT
\* fails when the room row is gone); touchRoom is sent with Date.now().
JoinAdd(t) ==
    /\ tasks[t].kind = "join" /\ tasks[t].pc = "add"
    /\ IF rooms[tasks[t].room].exists
       THEN /\ members' = addMember(tasks[t].room, tasks[t].ev)
            /\ tasks' = [tasks EXCEPT ![t].pc = "touch", ![t].la = now]
            /\ UNCHANGED inbox
       ELSE /\ JoinFailed(t)
            /\ UNCHANGED members
    /\ UNCHANGED <<rooms, chats, sock, mainEmits, now, faults>>

\* touchRoom takes effect; the three reads of Promise.all are sent.
JoinTouch(t) ==
    /\ tasks[t].kind = "join" /\ tasks[t].pc = "touch"
    /\ rooms' = touchRoom(tasks[t].room, tasks[t].la)
    /\ tasks' = [tasks EXCEPT ![t].pc = "fetch",
                              ![t].pending = {"state", "hist", "users"}]
    /\ UNCHANGED <<members, chats, net, now, faults>>

\* Lines 297-304: the four emits once all three reads have returned.
joinEmits(t, state, hist, users) ==
    LET c == tasks[t].conn
        r == tasks[t].room
        i1 == Deliver(inbox, Self(c), Msg("room:state", stateOrFallback(state)))
        i2 == Deliver(i1, Self(c), Msg("chat:history", hist))
        i3 == Deliver(i2, InRoom(r), Msg("user:list", users))
    IN  Deliver(i3, InRoom(r) \ {c},
                Msg("webrtc:new-peer",
                    [id |-> tasks[t].ev.uuid, name |-> tasks[t].ev.name,
                     avatar |-> tasks[t].ev.avatar]))

\* One of the three reads returns (in any order); after the last one the
\* handler emits and ends.
JoinFetch(t, q) ==
    /\ tasks[t].kind = "join" /\ tasks[t].pc = "fetch"
    /\ q \in tasks[t].pending
    /\ LET state == IF q = "state" THEN getRoomState(tasks[t].room) ELSE tasks[t].rstate
           hist == IF q = "hist" THEN getChatHistory(tasks[t].room) ELSE tasks[t].hist
           users == IF q = "users" THEN getUsersInRoom(tasks[t].room) ELSE tasks[t].users
       IN  IF tasks[t].pending = {q}
           THEN /\ inbox' = joinEmits(t, state, hist, users)
                /\ tasks' = [tasks EXCEPT ![t] = Finish(t, "done")]
           ELSE /\ tasks' = [tasks EXCEPT ![t].pending = @ \ {q}, ![t].rstate = state,
                                          ![t].hist = hist, ![t].users = users]
                /\ UNCHANGED inbox
    /\ UNCHANGED <<db, sock, mainEmits, now, faults>>

\* ------------------------------------------------- chat:message (341-386)

\* Lines 351-359: the entry built at receipt.  uuidv4() is a value no other
\* entry has: the number of the handler invocation.
chatEntry(t) ==
    [id |-> t, sender |-> tasks[t].ev.sender, text |-> tasks[t].ev.text,
     reactions |-> << >>, ts |-> tasks[t].t0]

\* The room is the one of the namespace (line 215), joined or not; the entry
\* is built and saveChat is called.  The column cache of saveChat has been
\* filled by the getChatHistory of an earlier join.
ChatMessageRecv(c, payload) ==
    /\ sock[c].status = "open"
    /\ tasks' = Append(tasks,
          [NewTask("chat", c, "save", nsRoom(c), payload) EXCEPT !.t0 = now])
    /\ UNCHANGED <<db, net, now, faults>>

\* The row the INSERT is given violates a constraint of the table: sender and
\* text are NOT NULL, room_id references rooms.
chatRejected(t) ==
    \/ tasks[t].ev.sender \in {Absent, Undef, Null}
    \/ tasks[t].ev.text \in {Absent, Undef, Null}
    \/ ~rooms[tasks[t].room].exists

\* The INSERT takes effect and touchRoom is sent with Date.now(), or the
\* INSERT is refused and the inner catch reports it (373-379).
ChatSave(t) ==
    /\ tasks[t].kind = "chat" /\ tasks[t].pc = "save"
    /\ IF chatRejected(t)
       THEN /\ inbox' = Deliver(inbox, Self(tasks[t].conn), RoomError("chat"))
            /\ tasks' = [tasks EXCEPT ![t] = Finish(t, "error")]
            /\ UNCHANGED chats
       ELSE /\ chats' = saveChat(tasks[t].room, chatEntry(t))
            /\ tasks' = [tasks EXCEPT ![t].pc = "touch", ![t].la = now]
            /\ UNCHANGED inbox
    /\ UNCHANGED <<rooms, members, sock, mainEmits, now, faults>>

\* The broadcast written with socket.to(roomId): the sender is left out.
chatBroadcastOthers(t) ==
    Deliver(inbox, InRoom(tasks[t].room) \ {tasks[t].conn},
            Msg("chat:message", chatEntry(t)))

\* Line 370: socket.nsp.to(roomId).emit("chat:message", chatEntry).
chatBroadcast(t) ==
    Deliver(inbox, InRoom(tasks[t].room), Msg("chat:message", chatEntry(t)))

\* touchRoom takes effect; the entry is broadcast and the handler ends.
ChatTouch(t) ==
    /\ tasks[t].kind = "chat" /\ tasks[t].pc = "touch"
    /\ rooms' = touchRoom(tasks[t].room, tasks[t].la)
    /\ inbox' = chatBroadcast(t)
    /\ tasks' = [tasks EXCEPT ![t] = Finish(t, "done")]
    /\ UNCHANGED <<members, chats, sock, mainEmits, now, faults>>

\* ------------------------------------------------ chat:reaction (388-392)

\* The map with its test left out: every entry is given the emoji.
reactMapAll(hist, msgId, emoji) ==
    {[m EXCEPT !.reactions = Append(@, emoji)] : m \in hist}

\* Line 390: hist.map(m => m.id === msgId
\*                          ? { ...m, reactions: [...m.reactions, emoji] } : m).
reactMap(hist, msgId, emoji) ==
    {IF m.id = msgId THEN [m EXCEPT !.reactions = Append(@, emoji)] ELSE m :
        m \in hist}

\* roomId, msgId and emoji are the payload's; getChatHistory is called.
ChatReactionRecv(c, payload) ==
    /\ sock[c].status = "open"
    /\ tasks' = Append(tasks,
          [NewTask("react", c, "read", payload.roomId, payload) EXCEPT !.t0 = now])
    /\ UNCHANGED <<db, net, now, faults>>

\* getChatHistory returns; the mapped copy is emitted through io, the default
\* namespace, and the handler ends.  Nothing is written.
ReactRead(t) ==
    /\ tasks[t].kind = "react" /\ tasks[t].pc = "read"
    /\ mainEmits' = mainEmits \cup
          {[room |-> tasks[t].room,
            msg |-> Msg("chat:history",
                        reactMap(getChatHistory(tasks[t].room),
                                 tasks[t].ev.msgId, tasks[t].ev.emoji))]}
    /\ tasks' = [tasks EXCEPT ![t] = Finish(t, "done")]
    /\ UNCHANGED <<db, sock, inbox, now, faults>>

\* ------------------------------------------- POST /api/rooms (rooms.ts 7-13)

\* Line 10: the state the request is created with when its body has none.
createFallback ==
    [EmptyObj EXCEPT !.source = Null, !.isPlaying = V(FALSE), !.time = V(0)]

\* req.body.state || { source: null, isPlaying: false, time: 0 }.
createState(body) == IF body.hasState THEN body.state ELSE createFallback

\* The request arrives with id r in its body; upsertRoomState is called and
\* sends its read.
RoomsPostRecv(r, body) ==
    /\ tasks' = Append(tasks,
          [NewTask("create", "", "create_read", r, body) EXCEPT !.t0 = now])
    /\ UNCHANGED <<db, net, now, faults>>

\* upsertRoomState line 32-40: the read returns, the merge is computed and the
\* INSERT is sent with Date.now() as last_active.
CreateRead(t) ==
    /\ tasks[t].kind = "create" /\ tasks[t].pc = "create_read"
    /\ tasks' = [tasks EXCEPT ![t].pc = "create_write",
                    ![t].merged = upsertMerge(tasks[t].room, createState(tasks[t].ev)),
                    ![t].la = now]
    /\ UNCHANGED <<db, net, now, faults>>

\* The INSERT takes effect and the response is sent.
CreateWrite(t) ==
    /\ tasks[t].kind = "create" /\ tasks[t].pc = "create_write"
    /\ rooms' = upsertWrite(tasks[t].room, tasks[t].merged, tasks[t].la)
    /\ tasks' = [tasks EXCEPT ![t] = Finish(t, "done")]
    /\ UNCHANGED <<members, chats, net, now, faults>>

\* ------------------------------------------------ cleanup interval (433-440)

\* DELETE with <= in place of <.
cleanupAtCutoff(cutoff) ==
    {r \in Rooms : rooms[r].exists /\ rooms[r].last_active <= cutoff}

\* DELETE that also takes the rooms no socket is connected to.
cleanupUnattended(cutoff) ==
    {r \in Rooms : /\ rooms[r].exists
                   /\ (rooms[r].last_active < cutoff \/ InRoom(r) = {})}

\* DELETE FROM rooms WHERE last_active < $1: the ids of the rows deleted.
cleanupInactiveRooms(cutoff) ==
    {r \in Rooms : rooms[r].exists /\ rooms[r].last_active < cutoff}

\* A foreign key without ON DELETE CASCADE that lets the parent go.
keepChildren(table, ids) == table

\* room_id REFERENCES rooms(id) ON DELETE CASCADE: the rows of a child table
\* that are left when the rooms in ids are deleted.
cascade(table, ids) == {x \in table : x.room_id \notin ids}

\* Lines 434-436: the interval fires; the cutoff is computed and the DELETE
\* is sent.
ReaperTick ==
    /\ tasks' = Append(tasks,
          [NewTask("reap", "", "delete", "", [cutoff |-> now - IdleMs])
             EXCEPT !.t0 = now])
    /\ UNCHANGED <<db, net, now, faults>>

\* The DELETE takes effect; res.rowCount is returned.
ReapDelete(t) ==
    /\ tasks[t].kind = "reap" /\ tasks[t].pc = "delete"
    /\ LET ids == cleanupInactiveRooms(tasks[t].ev.cutoff)
       IN  /\ rooms' = [r \in Rooms |-> IF r \in ids THEN NoRow ELSE rooms[r]]
           /\ members' = cascade(members, ids)
           /\ chats' = cascade(chats, ids)
           /\ tasks' = [tasks EXCEPT ![t] =
                  [Finish(t, "done") EXCEPT !.deleted = Cardinality(ids)]]
    /\ UNCHANGED <<net, now, faults>>

\* ------------------------------------------ connection, disconnecting (410-430)

\* Lines 213-216: a client connects to the namespace of its room.  seq is the
\* socket's place in nsp.sockets, a Map, which keeps the order of insertion.
Connect(c) ==
    /\ sock[c].status = "new"
    /\ sock' = [sock EXCEPT ![c].status = "open",
                            ![c].seq = 1 + Cardinality({d \in Conns :
                                                          sock[d].status # "new"})]
    /\ UNCHANGED <<db, inbox, mainEmits, tasks, now, faults>>

\* socket.rooms without the socket's own id: the namespace room while the
\* socket is connected, nothing once it has left its rooms.
socketRooms(c) == IF sock[c].status = "open" THEN {nsRoom(c)} ELSE {}

\* Lines 420-426: io.to(r).emit("webrtc:remove-peer", { id: uuid || socket.id }).
removePeerEmits(rs, id) ==
    {[room |-> r, msg |-> Msg("webrtc:remove-peer", [id |-> id])] : r \in rs}

\* The transport closes: the handler runs up to its first await, then the
\* socket leaves its rooms and the namespace.  With no identity bound there is
\* no await and the handler ends at once.
Disconnect(c) ==
    /\ sock[c].status = "open"
    /\ sock' = [sock EXCEPT ![c].status = "closed"]
    /\ IF sock[c].data.set
       THEN /\ tasks' = Append(tasks,
                  NewTask("disc", c, "remove", sock[c].data.roomId,
                          [uuid |-> sock[c].data.uuid]))
            /\ UNCHANGED mainEmits
       ELSE /\ tasks' = Append(tasks,
                  NewTask("disc", c, "done", nsRoom(c), [uuid |-> ""]))
            /\ mainEmits' = mainEmits \cup removePeerEmits(socketRooms(c), c)
    /\ UNCHANGED <<db, inbox, now, faults>>

\* removeMember takes effect; getUsersInRoom is sent.
DiscRemove(t) ==
    /\ tasks[t].kind = "disc" /\ tasks[t].pc = "remove"
    /\ members' = removeMember(tasks[t].room, tasks[t].ev.uuid)
    /\ tasks' = [tasks EXCEPT ![t].pc = "users"]
    /\ UNCHANGED <<rooms, chats, net, now, faults>>

\* getUsersInRoom returns: user:list goes to the default namespace, then
\* webrtc:remove-peer to every room the socket is in at that moment.
DiscUsers(t) ==
    /\ tasks[t].kind = "disc" /\ tasks[t].pc = "users"
    /\ mainEmits' = mainEmits
          \cup {[room |-> tasks[t].room,
                 msg |-> Msg("user:list", getUsersInRoom(tasks[t].room))]}
          \cup removePeerEmits(socketRooms(tasks[t].conn), tasks[t].ev.uuid)
    /\ tasks' = [tasks EXCEPT ![t] = Finish(t, "done")]
    /\ UNCHANGED <<db, sock, inbox, now, faults>>

\* ------------------------------------------------------------ store failures

\* StoreFails with the `return` of line 278 left out: after reporting the
\* failed ensure step the join goes on to bind the identity and add the member.
StoreFailsNoReturn(t) ==
    /\ faults < MaxFaults
    /\ InFlight(t)
    /\ faults' = faults + 1
    /\ IF tasks[t].kind = "join"
       THEN /\ inbox' = Deliver(inbox, Self(tasks[t].conn),
                  RoomError(IF tasks[t].pc \in {"ensure_read", "ensure_write"}
                            THEN "create" ELSE "join"))
            /\ IF tasks[t].pc \in {"ensure_read", "ensure_write"}
               THEN /\ tasks' = [tasks EXCEPT ![t].pc = "add"]
                    /\ sock' = [sock EXCEPT ![tasks[t].conn].data = joinBind(t)]
               ELSE /\ tasks' = [tasks EXCEPT ![t] = Finish(t, "error")]
                    /\ UNCHANGED sock
       ELSE /\ tasks' = [tasks EXCEPT ![t] =
                  Finish(t, IF tasks[t].kind = "disc" THEN "error" ELSE "rejected")]
            /\ UNCHANGED <<inbox, sock>>
    /\ UNCHANGED <<db, mainEmits, now>>

\* StoreFails with the error of room:join and chat:message emitted to the
\* room (socket.nsp.to(roomId)) instead of the socket.
StoreFailsToRoom(t) ==
    /\ faults < MaxFaults
    /\ InFlight(t)
    /\ faults' = faults + 1
    /\ IF tasks[t].kind \in {"join", "chat"}
       THEN /\ inbox' = Deliver(inbox, InRoom(tasks[t].room), RoomError("room"))
            /\ tasks' = [tasks EXCEPT ![t] = Finish(t, "error")]
       ELSE /\ tasks' = [tasks EXCEPT ![t] =
                  Finish(t, IF tasks[t].kind = "disc" THEN "error" ELSE "rejected")]
            /\ UNCHANGED inbox
    /\ UNCHANGED <<db, sock, mainEmits, now>>

\* The statement a task awaits rejects.  room:join reports room:error to its
\* socket (271-278 for the ensure step, 307-313 after it) and so does
\* chat:message (373-379); disconnecting logs (427-429); video:action,
\* chat:reaction, playlist:update and theme:update have no handler for it and
\* the rejection is unhandled.
StoreFails(t) ==
    /\ faults < MaxFaults
    /\ InFlight(t)
    /\ faults' = faults + 1
    /\ IF tasks[t].kind = "join"
       THEN /\ inbox' = Deliver(inbox, Self(tasks[t].conn),
                  RoomError(IF tasks[t].pc \in {"ensure_read", "ensure_write"}
                            THEN "create" ELSE "join"))
            /\ tasks' = [tasks EXCEPT ![t] = Finish(t, "error")]
       ELSE IF tasks[t].kind = "chat"
       THEN /\ inbox' = Deliver(inbox, Self(tasks[t].conn), RoomError("chat"))
            /\ tasks' = [tasks EXCEPT ![t] = Finish(t, "error")]
       ELSE /\ tasks' = [tasks EXCEPT ![t] =
                  Finish(t, IF tasks[t].kind = "disc" THEN "error" ELSE "rejected")]
            /\ UNCHANGED inbox
    /\ UNCHANGED <<db, sock, mainEmits, now>>

\* ------------------------------------------------------------------- clock

Tick ==
    /\ now < MaxClock
    /\ now' = now + 1
    /\ UNCHANGED <<db, net, tasks, faults>>

\* The clock of a run that lasts long enough for rooms to go idle.
TickTo(max) ==
    /\ now < max
    /\ now' = now + 1
    /\ UNCHANGED <<db, net, tasks, faults>>

\* ------------------------------------------------------------------ inputs

Member(u, n) == [uuid |-> u, name |-> n, avatar |-> "av1"]

JoinPayloads == {Member("u1", "ann"), Member("u2", "bob")}

\* What the player sends (Player.tsx, emit): type, targetTime, source and the
\* client's own clock, which lies outside the server clock's range.
VideoEvent(type, source, targetTime) ==
    [type |-> type, source |-> source, targetTime |-> targetTime, clientTimeMs |-> 9]

Sources == {Absent, Null, V("v1")}
TargetTimes == {Absent, V(0), V(7)}

AllVideoEvents ==
    {VideoEvent(ty, so, tt) : ty \in StateTypes, so \in Sources, tt \in TargetTimes}

SomeVideoEvents ==
    {VideoEvent("play", Absent, V(7)), VideoEvent("load", V("v1"), Absent)}

Playlists == {[playlist |-> V(<<"a">>)], [playlist |-> V(<<"b", "c">>)]}
Themes == {[theme |-> V("dark")]}

\* ----------------------------------------------------------- specification

Init ==
    /\ rooms = [r \in Rooms |-> NoRow]
    /\ members = {}
    /\ chats = {}
    /\ sock = [c \in Conns |-> [status |-> "new", data |-> NoData, seq |-> 0]]
    /\ inbox = [c \in Conns |-> <<>>]
    /\ mainEmits = {}
    /\ tasks = <<>>
    /\ now = 0
    /\ faults = 0

JoinStep(t) ==
    \/ JoinEnsureRead(t)
    \/ JoinEnsureWrite(t)
    \/ JoinAdd(t)
    \/ JoinTouch(t)
    \/ \E q \in {"state", "hist", "users"} : JoinFetch(t, q)

MutStep(t) ==
    \/ MutRead(t)
    \/ MutUpsertRead(t)
    \/ MutUpsertWrite(t)
    \/ MutTouch(t)

\* Connections come, join, leave; store statements may fail.
Next ==
    \/ \E c \in {"c1", "c2"} : Connect(c)
    \/ \E c \in {"c1", "c2"}, data \in JoinPayloads :
          Len(tasks) < MaxTasks /\ RoomJoinRecv(c, data)
    \/ \E c \in {"c1", "c2"} : Len(tasks) < MaxTasks /\ Disconnect(c)
    \/ \E t \in TaskIds : JoinStep(t)
    \/ \E t \in TaskIds : DiscRemove(t)
    \/ \E t \in TaskIds : DiscUsers(t)
    \/ \E t \in TaskIds : StoreFails(t)

Spec == Init /\ [][Next]_vars

\* ------------------------------------------------- states after the joins

DoneJoin(c, m, after) ==
    [Idle EXCEPT !.kind = "join", !.conn = c, !.pc = "done", !.room = "r1",
                 !.ev = m, !.at = "fetch", !.after = after]

Bound(m) ==
    [set |-> TRUE, uuid |-> m.uuid, name |-> m.name, avatar |-> m.avatar,
     roomId |-> "r1"]

Row(m) == [room_id |-> "r1", uuid |-> m.uuid, name |-> m.name, avatar |-> m.avatar]

FreshRoom == [exists |-> TRUE, state |-> defaultState, last_active |-> 0]

Snapshot == << Msg("room:state", defaultState), Msg("chat:history", {}) >>

\* c1 has joined r1 as u1: the state Init leads to by Connect("c1"),
\* RoomJoinRecv and the steps of that join.
OneJoined ==
    LET m1 == Member("u1", "ann")
    IN  /\ rooms = [r \in Rooms |-> IF r = "r1" THEN FreshRoom ELSE NoRow]
        /\ members = {Row(m1)}
        /\ chats = {}
        /\ sock = [c \in Conns |->
              IF c = "c1" THEN [status |-> "open", data |-> Bound(m1), seq |-> 1]
              ELSE [status |-> "new", data |-> NoData, seq |-> 0]]
        /\ inbox = [c \in Conns |->
              IF c = "c1" THEN Snapshot \o << Msg("user:list", {m1}) >> ELSE << >>]
        /\ mainEmits = {}
        /\ tasks = << DoneJoin("c1", m1, {}) >>
        /\ now = 0
        /\ faults = 0

\* c1 has joined r1 as u1 and, after that, c2 as u2.
BothJoined ==
    LET m1 == Member("u1", "ann")
        m2 == Member("u2", "bob")
    IN  /\ rooms = [r \in Rooms |-> IF r = "r1" THEN FreshRoom ELSE NoRow]
        /\ members = {Row(m1), Row(m2)}
        /\ chats = {}
        /\ sock = [c \in Conns |->
              IF c = "c1" THEN [status |-> "open", data |-> Bound(m1), seq |-> 1]
              ELSE IF c = "c2" THEN [status |-> "open", data |-> Bound(m2), seq |-> 2]
              ELSE [status |-> "new", data |-> NoData, seq |-> 0]]
        /\ inbox = [c \in Conns |->
              IF c = "c1"
              THEN Snapshot \o
                   << Msg("user:list", {m1}), Msg("user:list", {m1, m2}),
                      Msg("webrtc:new-peer", [id |-> "u2", name |-> "bob",
                                              avatar |-> "av1"]) >>
              ELSE IF c = "c2"
              THEN Snapshot \o << Msg("user:list", {m1, m2}) >>
              ELSE << >>]
        /\ mainEmits = {}
        /\ tasks = << DoneJoin("c1", m1, {}), DoneJoin("c2", m2, {1}) >>
        /\ now = 0
        /\ faults = 0

\* ------------------------------------------------------- claims C2, C7

JoinsOf(u) == {t \in TaskIds : tasks[t].kind = "join" /\ tasks[t].ev.uuid = u}

IsMember(r, u) == \E m \in members : m.room_id = r /\ m.uuid = u

\* C2: a connection that disconnects while its room:join is in progress is
\* not in the membership list once the join handler and the disconnect
\* handler have both finished (no other join names that identity).
C2_NoPresenceAfterDisconnect ==
    \A tj, td \in TaskIds :
        (/\ tasks[tj].kind = "join" /\ tasks[td].kind = "disc"
         /\ tasks[tj].conn = tasks[td].conn
         /\ tj < td /\ tj \notin tasks[td].after
         /\ ~InFlight(tj) /\ ~InFlight(td)
         /\ JoinsOf(tasks[tj].ev.uuid) = {tj})
        => ~IsMember(tasks[tj].room, tasks[tj].ev.uuid)

\* A statement of a join's ensure-room step (upsertRoomState(roomId, {}))
\* rejects: the step is a store failure and it is this task that moves.
EnsureFails(t) ==
    /\ tasks[t].kind = "join"
    /\ tasks[t].pc \in {"ensure_read", "ensure_write"}
    /\ faults' # faults
    /\ tasks'[t] # tasks[t]

\* C7: the step in which a join's ensure-room statement fails registers no
\* presence (membership and the socket's bound identity are unchanged),
\* broadcasts nothing (no connection but the originating one receives
\* anything, nothing goes out through io) and hands the originating
\* connection exactly one room:error; the handler is finished after it.
C7_EnsureFailureAborts ==
    [][\A t \in TaskIds :
          EnsureFails(t) =>
            /\ members' = members
            /\ sock' = sock
            /\ mainEmits' = mainEmits
            /\ \A c \in Conns \ {tasks[t].conn} : inbox'[c] = inbox[c]
            /\ sock[tasks[t].conn].status = "open" =>
                  /\ Len(inbox'[tasks[t].conn]) = Len(inbox[tasks[t].conn]) + 1
                  /\ inbox'[tasks[t].conn][Len(inbox'[tasks[t].conn])].ev = "room:error"
            /\ ~InFlight(t)']_vars

\* A join has failed at its ensure step, its connection holds the
\* room:error, and the identity it asked for is not a member.
C7_Witness ==
    \E t \in TaskIds :
        /\ tasks[t].kind = "join" /\ tasks[t].pc = "error"
        /\ tasks[t].at \in {"ensure_read", "ensure_write"}
        /\ \E i \in 1..Len(inbox[tasks[t].conn]) :
              inbox[tasks[t].conn][i].ev = "room:error"
        /\ ~IsMember(tasks[t].room, tasks[t].ev.uuid)

\* ------------------------------------------ SpecPresence: join and leave

\* c1 is joined as u1.  A second connection comes and joins, as another
\* identity or as u1 again (a reconnect); connections leave; statements fail.
PresencePayloads == {Member("u1", "bob"), Member("u2", "bob")}

NextPresence ==
    \/ Connect("c2")
    \/ \E data \in PresencePayloads :
          Len(tasks) < 1 + MaxPresenceTasks /\ RoomJoinRecv("c2", data)
    \/ \E c \in {"c1", "c2"} : Len(tasks) < 1 + MaxPresenceTasks /\ Disconnect(c)
    \/ \E t \in TaskIds : JoinStep(t)
    \/ \E t \in TaskIds : DiscRemove(t)
    \/ \E t \in TaskIds : DiscUsers(t)
    \/ \E t \in TaskIds : StoreFails(t)

SpecPresence == OneJoined /\ [][NextPresence]_vars

\* ---------------------------------------------------- claims C4, C5, C8

\* The connections that were joined before handler td was received and are
\* still connected: the members remaining when td's connection leaves.
Remaining(td) ==
    {c \in InRoom(tasks[td].room) \ {tasks[td].conn} :
        \E tj \in tasks[td].after :
            tasks[tj].kind = "join" /\ tasks[tj].conn = c /\ tasks[tj].pc = "done"}

UserLists(c) == {i \in 1..Len(inbox[c]) : inbox[c][i].ev = "user:list"}

Names(c, i) == {m.uuid : m \in inbox[c][i].p}

\* The disconnect handler of a Joined connection: its join had completed,
\* and no join of it was in progress, when the transport closed.
JoinedLeft(td) ==
    /\ tasks[td].kind = "disc"
    /\ \E tj \in tasks[td].after :
          /\ tasks[tj].kind = "join" /\ tasks[tj].conn = tasks[td].conn
          /\ tasks[tj].pc = "done" /\ tasks[tj].ev.uuid = tasks[td].ev.uuid
    /\ \A tj \in 1..(td - 1) :
          (tasks[tj].kind = "join" /\ tasks[tj].conn = tasks[td].conn)
             => tj \in tasks[td].after

\* C4: when the disconnect handler of a joined connection has finished (no
\* statement failed, no other join names the identity), the identity is no
\* member and the last user:list every remaining connection holds is one
\* without it.
C4_LeaveRefreshesList ==
    \A td \in TaskIds :
        (/\ JoinedLeft(td) /\ tasks[td].pc = "done" /\ faults = 0
         /\ Cardinality(JoinsOf(tasks[td].ev.uuid)) = 1
         /\ Quiescent)
        => /\ ~IsMember(tasks[td].room, tasks[td].ev.uuid)
           /\ \A c \in Remaining(td) :
                 /\ UserLists(c) # {}
                 /\ \A i \in UserLists(c) :
                       (\A k \in UserLists(c) : k <= i) =>
                          tasks[td].ev.uuid \notin Names(c, i)

\* C5: when the disconnect handler of a joined connection has ended, whether
\* or not its removeMember or its user:list failed, every remaining
\* connection holds a webrtc:remove-peer naming the identity.
C5_RemovePeerAlways ==
    \A td \in TaskIds :
        (JoinedLeft(td) /\ ~InFlight(td))
        => \A c \in Remaining(td) :
              \E i \in 1..Len(inbox[c]) :
                  /\ inbox[c][i].ev = "webrtc:remove-peer"
                  /\ inbox[c][i].p.id = tasks[td].ev.uuid

JoinCompletes(t) ==
    /\ tasks[t].kind = "join" /\ InFlight(t) /\ tasks'[t].pc = "done"

\* C8: the step that completes a join of a connected socket appends to the
\* joiner room:state, chat:history and a user:list containing the joiner, in
\* that order; to every other connection of the room that same user:list and
\* then webrtc:new-peer with the joiner's identity; and nothing else.
C8_JoinEmits ==
    [][\A t \in TaskIds :
          (JoinCompletes(t) /\ sock[tasks[t].conn].status = "open") =>
            LET c == tasks[t].conn
                n == Len(inbox[c])
                u == tasks[t].ev.uuid
            IN  /\ Len(inbox'[c]) = n + 3
                /\ SubSeq(inbox'[c], 1, n) = inbox[c]
                /\ inbox'[c][n + 1].ev = "room:state"
                /\ inbox'[c][n + 2].ev = "chat:history"
                /\ inbox'[c][n + 3].ev = "user:list"
                /\ \E m \in inbox'[c][n + 3].p : m.uuid = u
                /\ \A o \in InRoom(tasks[t].room) \ {c} :
                      inbox'[o] = inbox[o] \o
                          << inbox'[c][n + 3],
                             Msg("webrtc:new-peer",
                                 [id |-> u, name |-> tasks[t].ev.name,
                                  avatar |-> tasks[t].ev.avatar]) >>
                /\ \A o \in Conns \ InRoom(tasks[t].room) : inbox'[o] = inbox[o]]_vars

\* ------------------------------------------- SpecMerge: concurrent merges

\* Two joined members send playback and playlist events for their room.
NextMerge ==
    \/ \E c \in {"c1", "c2"}, data \in SomeVideoEvents :
          Len(tasks) < 2 + MaxMergeTasks /\ VideoActionRecv(c, data)
    \/ \E c \in {"c1", "c2"}, data \in Playlists :
          Len(tasks) < 2 + MaxMergeTasks /\ PlaylistUpdateRecv(c, nsRoom(c), data)
    \/ \E t \in TaskIds : MutStep(t)
    \/ Tick

SpecMerge == BothJoined /\ [][NextMerge]_vars

\* ------------------------------------------------------- claims C1, C3

\* A value the event really supplies.
Supplied(x) == x \notin {Absent, Undef, Null}

\* The mutating handlers received after the joins.
MutTasks == {t \in TaskIds : tasks[t].kind \in Mutators}

\* What room r1 holds, as a reader gets it.
Stored == getRoomState("r1")

\* The fields a playback or playlist event sets, applied to a state: the
\* event's own meaning, whatever the handler does.
Applied(st, t) ==
    LET e == tasks[t].ev
    IN  IF tasks[t].kind = "playlist"
        THEN [st EXCEPT !.playlist = e.playlist]
        ELSE [st EXCEPT
                !.source = IF Supplied(e.source) THEN e.source ELSE @,
                !.isPlaying = IF e.type = "play" THEN V(TRUE)
                              ELSE IF e.type = "pause" THEN V(FALSE) ELSE @,
                !.time = IF Supplied(e.targetTime) THEN e.targetTime ELSE @]

SameButTs(a, b) == \A f \in Fields \ {"lastActionTs"} : a[f] = b[f]

\* C1: when one video:action (touching source/isPlaying/time) and one
\* playlist:update (touching playlist) for the same room have both been
\* handled, in whatever interleaving of their reads and writes, the stored
\* state holds the playlist of the one and the playback fields of the other.
C1_NoLostUpdate ==
    \A tv, tp \in TaskIds :
        (/\ tasks[tv].kind = "video" /\ tasks[tv].pc = "done"
         /\ tasks[tp].kind = "playlist" /\ tasks[tp].pc = "done"
         /\ MutTasks = {tv, tp})
        => SameButTs(Stored, Applied(Applied(defaultState, tv), tp))

\* C3: when one connection has sent two state-mutating events e1 then e2 and
\* both have been handled, the stored state is e2 applied to e1 applied to the
\* state before.
C3_InOrder ==
    \A t1, t2 \in TaskIds :
        (/\ t1 < t2 /\ MutTasks = {t1, t2}
         /\ tasks[t1].conn = tasks[t2].conn
         /\ tasks[t1].pc = "done" /\ tasks[t2].pc = "done")
        => SameButTs(Stored, Applied(Applied(defaultState, t1), t2))

\* ------------------------------------------------ SpecRooms: two rooms

\* c1 and c2 are joined in r1; c3 comes to r2 and joins.  c1 sends events;
\* playlist:update and theme:update carry the roomId in their payload.
NextRooms ==
    \/ Connect("c3")
    \/ Len(tasks) < 2 + MaxRoomsTasks /\ RoomJoinRecv("c3", Member("u3", "cat"))
    \/ \E data \in SomeVideoEvents :
          Len(tasks) < 2 + MaxRoomsTasks /\ VideoActionRecv("c1", data)
    \/ \E r \in Rooms, data \in Playlists :
          Len(tasks) < 2 + MaxRoomsTasks /\ PlaylistUpdateRecv("c1", r, data)
    \/ \E r \in Rooms, data \in Themes :
          Len(tasks) < 2 + MaxRoomsTasks /\ ThemeUpdateRecv("c1", r, data)
    \/ \E t \in TaskIds : MutStep(t)
    \/ \E t \in TaskIds : JoinStep(t)

SpecRooms == BothJoined /\ [][NextRooms]_vars

\* A step of a handler of connection c: it is received, or it moves.
StepOf(c) ==
    \E t \in 1..Len(tasks') :
        /\ tasks'[t].conn = c
        /\ (t > Len(tasks) \/ tasks'[t] # tasks[t])

\* C6: no step of a handler of a connection scoped to r1 changes the stored
\* state, the chat history or the membership of r2, or delivers anything to
\* the connection of r2.
C6_RoomIsolation ==
    [][(StepOf("c1") \/ StepOf("c2")) =>
          /\ rooms'["r2"] = rooms["r2"]
          /\ {m \in members' : m.room_id = "r2"} = {m \in members : m.room_id = "r2"}
          /\ {x \in chats' : x.room_id = "r2"} = {x \in chats : x.room_id = "r2"}
          /\ inbox'["c3"] = inbox["c3"]]_vars

\* ------------------------------------- SpecSnapshot: the state a joiner gets

OwnPayload(c) == IF c = "c1" THEN Member("u1", "ann") ELSE Member("u2", "bob")

\* From the empty store: c1 and c2 come and join, each under its own
\* identity, and c1 sends playback events.
NextSnapshot ==
    \/ \E c \in {"c1", "c2"} : Connect(c)
    \/ \E c \in {"c1", "c2"} :
          Len(tasks) < MaxSnapshotTasks /\ RoomJoinRecv(c, OwnPayload(c))
    \/ \E data \in SomeVideoEvents :
          Len(tasks) < MaxSnapshotTasks /\ VideoActionRecv("c1", data)
    \/ \E t \in TaskIds : MutStep(t)
    \/ \E t \in TaskIds : JoinStep(t)
    \/ Tick

SpecSnapshot == Init /\ [][NextSnapshot]_vars

\* The room:state and chat:history a completing join hands its connection.
SentState(t) == inbox'[tasks[t].conn][Len(inbox[tasks[t].conn]) + 1]
SentHistory(t) == inbox'[tasks[t].conn][Len(inbox[tasks[t].conn]) + 2]

NextVideo ==
    \/ \E data \in AllVideoEvents :
          Len(tasks) < 2 + MaxVideoTasks /\ VideoActionRecv("c1", data)
    \/ Len(tasks) < 2 + MaxVideoTasks
          /\ PlaylistUpdateRecv("c2", "r1", [playlist |-> V(<<"a">>)])
    \/ \E t \in TaskIds : MutStep(t)
    \/ Tick

SpecVideo == BothJoined /\ [][NextVideo]_vars

\* The INSERT of a video:action handler takes effect.
VideoWrites(t) ==
    /\ tasks[t].kind = "video" /\ tasks[t].pc = "upsert_write"
    /\ tasks'[t].pc = "touch"

NextRelay ==
    \/ Connect("c3")
    \/ \E c \in {"c1", "c2"}, data \in SomeVideoEvents :
          Len(tasks) < 2 + MaxRelayTasks /\ VideoActionRecv(c, data)
    \/ \E c \in {"c1", "c2"} :
          Len(tasks) < 2 + MaxRelayTasks
             /\ PlaylistUpdateRecv(c, nsRoom(c), [playlist |-> V(<<"a">>)])
    \/ Len(tasks) < 2 + MaxRelayTasks /\ Disconnect("c2")
    \/ \E t \in TaskIds : MutStep(t)
    \/ \E t \in TaskIds : DiscRemove(t)
    \/ \E t \in TaskIds : DiscUsers(t)
    \/ \E t \in TaskIds : StoreFails(t)
    \/ Tick

SpecRelay == BothJoined /\ [][NextRelay]_vars

\* The last await of a video:action handler returns and it emits (338).
VideoRelays(t) ==
    /\ tasks[t].kind = "video" /\ tasks[t].pc = "touch"
    /\ tasks'[t].pc = "done"

\* A video:action is received (325-328).
VideoReceived(t) ==
    /\ t = Len(tasks) + 1 /\ Len(tasks') = t
    /\ tasks'[t].kind = "video"

\* C11: the timestamp put on a video:action is the server clock at its
\* receipt; when the handler completes, every connection then in the sender's
\* room except the sender is handed the event with that timestamp, and the
\* sender, the connections of other rooms and the default namespace are handed
\* nothing.
C11_RelayToOthers ==
    [][/\ VideoReceived(Len(tasks) + 1) => tasks'[Len(tasks) + 1].t0 = now
       /\ \A t \in TaskIds :
             VideoRelays(t) =>
               /\ \A c \in Conns :
                     inbox'[c] =
                        IF c \in InRoom(nsRoom(tasks[t].conn)) \ {tasks[t].conn}
                        THEN Append(inbox[c],
                                Msg("video:action",
                                    [data |-> tasks[t].ev,
                                     serverTimeMs |-> tasks[t].t0]))
                        ELSE inbox[c]
               /\ mainEmits' = mainEmits]_vars

\* c1's play was relayed to c2 with the time of its receipt, which the clock
\* had passed by then; c1 was handed nothing, nor was c3 in r2.
C11_Witness ==
    \E t \in TaskIds :
        /\ tasks[t].kind = "video" /\ tasks[t].pc = "done" /\ tasks[t].conn = "c1"
        /\ tasks[t].t0 < now
        /\ sock["c3"].status = "open" /\ inbox["c3"] = << >>
        /\ Len(inbox["c2"]) > 3
        /\ inbox["c2"][Len(inbox["c2"])] =
              Msg("video:action", [data |-> tasks[t].ev, serverTimeMs |-> tasks[t].t0])
        /\ \A i \in 1..Len(inbox["c1"]) : inbox["c1"][i].ev # "video:action"

\* A store statement of a playlist:update handler rejects.
PlaylistFails(t) ==
    /\ tasks[t].kind = "playlist"
    /\ faults' # faults
    /\ tasks'[t] # tasks[t]

\* C20: when a store statement of a playlist:update handler fails, the
\* originating connection, if still connected, is handed a room:error, and no
\* other connection is handed anything.
C20_PlaylistFailureReported ==
    [][\A t \in TaskIds :
          PlaylistFails(t) =>
            /\ \A c \in Conns \ {tasks[t].conn} : inbox'[c] = inbox[c]
            /\ mainEmits' = mainEmits
            /\ sock[tasks[t].conn].status = "open" =>
                  /\ Len(inbox'[tasks[t].conn]) = Len(inbox[tasks[t].conn]) + 1
                  /\ inbox'[tasks[t].conn][Len(inbox'[tasks[t].conn])].ev = "room:error"]_vars

\* ------------------------------------------------ SpecChat: chat and faults

Sender(u, n) == V([uuid |-> u, name |-> n])

\* What the client sends (App.tsx, handleSendMessage), and a payload with no
\* text.
ChatPayloads ==
    {[sender |-> Sender("u1", "ann"), text |-> V("hi")],
     [sender |-> Sender("u1", "ann"), text |-> Absent]}

\* A reaction names an entry of the history, or an id no entry has.
ReactionPayloads(r) ==
    {[roomId |-> r, msgId |-> m, emoji |-> "+1"] :
        m \in {x.id : x \in chats} \cup {0}}

ChatStep(t) ==
    \/ ChatSave(t)
    \/ ChatTouch(t)

\* c1 and c2 are joined in r1.  c3 comes to r2 and joins; c1 and c3 send chat
\* messages, c1 reacts; store statements may fail; the clock moves.
NextChat ==
    \/ Connect("c3")
    \/ Len(tasks) < 2 + MaxChatTasks /\ RoomJoinRecv("c3", Member("u3", "cat"))
    \/ \E c \in {"c1", "c3"}, payload \in ChatPayloads :
          Len(tasks) < 2 + MaxChatTasks /\ ChatMessageRecv(c, payload)
    \/ \E payload \in ReactionPayloads("r1") :
          Len(tasks) < 2 + MaxChatTasks /\ ChatReactionRecv("c1", payload)
    \/ \E t \in TaskIds : JoinStep(t)
    \/ \E t \in TaskIds : ChatStep(t)
    \/ \E t \in TaskIds : ReactRead(t)
    \/ \E t \in TaskIds : StoreFails(t)
    \/ Tick

SpecChat == BothJoined /\ [][NextChat]_vars

\* A chat:message is received (341-359).
ChatReceived(t) ==
    /\ t = Len(tasks) + 1 /\ Len(tasks') = t
    /\ tasks'[t].kind = "chat"

\* The INSERT of a chat:message handler takes effect.
ChatSaves(t) ==
    /\ tasks[t].kind = "chat" /\ tasks[t].pc = "save"
    /\ tasks'[t].pc = "touch"

\* A chat:message handler runs to its end (369-370).
ChatCompletes(t) ==
    /\ tasks[t].kind = "chat" /\ tasks[t].pc = "touch"
    /\ tasks'[t].pc = "done"

\* The rows of the table chats that carry entry e of room r.
RowsOf(table, r, e) ==
    {x \in table : /\ x.id = e.id /\ x.room_id = r /\ x.sender = e.sender
                   /\ x.text = e.text /\ x.reactions = e.reactions
                   /\ x.ts = e.ts}

\* C12: the timestamp of a chat entry is the server clock at receipt.  The
\* save adds exactly one row to the table: the payload's sender and text, an
\* id no other row has, that timestamp and no reaction, in the sender's room.
\* When the handler completes, the row is there and every connection of that
\* room, the sender included, is handed that same entry; no other connection
\* is handed anything.
C12_ChatSend ==
    [][/\ ChatReceived(Len(tasks) + 1) => tasks'[Len(tasks) + 1].t0 = now
       /\ \A t \in TaskIds :
             LET e == [id |-> t, sender |-> tasks[t].ev.sender,
                       text |-> tasks[t].ev.text, reactions |-> << >>,
                       ts |-> tasks[t].t0]
                 r == nsRoom(tasks[t].conn)
             IN  /\ ChatSaves(t) =>
                       /\ \A x \in chats : x.id # e.id
                       /\ Cardinality(chats') = Cardinality(chats) + 1
                       /\ chats \subseteq chats'
                       /\ Cardinality(RowsOf(chats', r, e)) = 1
                 /\ ChatCompletes(t) =>
                       /\ chats' = chats
                       /\ Cardinality(RowsOf(chats, r, e)) = 1
                       /\ Cardinality({x \in chats : x.id = e.id}) = 1
                       /\ \A c \in Conns :
                             inbox'[c] = IF c \in InRoom(r)
                                         THEN Append(inbox[c], Msg("chat:message", e))
                                         ELSE inbox[c]]_vars

\* c1's message is in the table and c1 and c2 hold the same entry, stamped
\* with the time of its receipt, which the clock had passed by then; c3 in r2
\* holds no chat message.
C12_Witness ==
    \E t \in TaskIds :
        /\ tasks[t].kind = "chat" /\ tasks[t].pc = "done" /\ tasks[t].conn = "c1"
        /\ tasks[t].t0 < now
        /\ sock["c3"].status = "open"
        /\ \A i \in 1..Len(inbox["c3"]) : inbox["c3"][i].ev # "chat:message"
        /\ \E x \in chats : x.id = t /\ x.ts = tasks[t].t0 /\ x.reactions = << >>
        /\ \A c \in {"c1", "c2"} :
              /\ Len(inbox[c]) > 0
              /\ inbox[c][Len(inbox[c])].ev = "chat:message"
              /\ inbox[c][Len(inbox[c])].p.id = t
              /\ inbox[c][Len(inbox[c])].p.ts = tasks[t].t0

\* C13: once a chat:reaction naming an entry of its room's history has been
\* handled, the entry's reaction list in the history holds the emoji.
C13_ReactionsKept ==
    \A t \in TaskIds :
        (/\ tasks[t].kind = "react" /\ tasks[t].pc = "done"
         /\ \E m \in getChatHistory(tasks[t].room) : m.id = tasks[t].ev.msgId)
        => \A m \in getChatHistory(tasks[t].room) :
              m.id = tasks[t].ev.msgId =>
                 \E i \in 1..Len(m.reactions) : m.reactions[i] = tasks[t].ev.emoji

\* A chat:reaction handler runs to its end (389-391).
ReactCompletes(t) ==
    /\ tasks[t].kind = "react" /\ tasks[t].pc = "read"
    /\ tasks'[t].pc = "done"

\* C14: a chat:reaction whose msgId is the id of no entry of the room's
\* history writes nothing (no row is added, removed or changed), hands no
\* connection anything (no error either), and what it emits is the history as
\* stored: the same entries with the same reaction lists.
C14_UnknownEntryNoOp ==
    [][\A t \in TaskIds :
          (/\ ReactCompletes(t)
           /\ \A m \in getChatHistory(tasks[t].room) : m.id # tasks[t].ev.msgId)
          => /\ chats' = chats
             /\ inbox' = inbox
             /\ mainEmits' \ mainEmits \subseteq
                   {[room |-> tasks[t].room,
                     msg |-> Msg("chat:history", getChatHistory(tasks[t].room))]}]_vars

\* A reaction with an unknown id was handled while the room had an entry:
\* the table holds that entry alone, without reaction, and the history as
\* stored went out.
C14_Witness ==
    \E t \in TaskIds :
        /\ tasks[t].kind = "react" /\ tasks[t].pc = "done"
        /\ tasks[t].ev.msgId = 0
        /\ Cardinality(chats) = 1
        /\ \A x \in chats : x.room_id = tasks[t].room /\ x.reactions = << >>
        /\ [room |-> tasks[t].room,
            msg |-> Msg("chat:history", getChatHistory(tasks[t].room))] \in mainEmits

\* A room:join or chat:message handler ends in its catch.
ActionFails(t) ==
    /\ tasks[t].kind \in {"join", "chat"}
    /\ InFlight(t)
    /\ tasks'[t].pc = "error"

\* Handler t2 is a retry of the failed t1: the same event with the same
\* payload on the same connection, received after t1 had ended.
RetryOf(t1, t2) ==
    /\ tasks[t1].pc = "error"
    /\ t1 \in tasks[t2].after
    /\ tasks[t2].kind = tasks[t1].kind
    /\ tasks[t2].conn = tasks[t1].conn
    /\ tasks[t2].ev = tasks[t1].ev

\* C19: the step in which a room:join or chat:message handler fails hands its
\* own connection, if still connected, one room:error and no other connection
\* anything, emits nothing through io and leaves every socket as it was.  A
\* retry that runs to its end does what the action does: a chat retry leaves
\* its entry in the table and hands it to every connection of the room; a
\* join retry leaves the identity a member and hands the connection
\* room:state, chat:history and a user:list that contains the identity.
C19_FailureIsScoped ==
    [][\A t \in TaskIds :
          /\ ActionFails(t) =>
                /\ \A c \in Conns \ {tasks[t].conn} : inbox'[c] = inbox[c]
                /\ mainEmits' = mainEmits
                /\ sock' = sock
                /\ sock[tasks[t].conn].status = "open" =>
                      /\ Len(inbox'[tasks[t].conn]) = Len(inbox[tasks[t].conn]) + 1
                      /\ inbox'[tasks[t].conn][Len(inbox'[tasks[t].conn])].ev
                            = "room:error"
          /\ \A t1 \in TaskIds :
                (RetryOf(t1, t) /\ ChatCompletes(t)) =>
                   /\ \E x \in chats' : x.id = t /\ x.text = tasks[t].ev.text
                   /\ \A c \in InRoom(tasks[t].room) :
                         /\ Len(inbox'[c]) = Len(inbox[c]) + 1
                         /\ inbox'[c][Len(inbox'[c])].ev = "chat:message"
                         /\ inbox'[c][Len(inbox'[c])].p.id = t
          /\ \A t1 \in TaskIds :
                (RetryOf(t1, t) /\ JoinCompletes(t)) =>
                   LET c == tasks[t].conn
                       n == Len(inbox[c])
                   IN  /\ IsMember(tasks[t].room, tasks[t].ev.uuid)
                       /\ Len(inbox'[c]) = n + 3
                       /\ inbox'[c][n + 1].ev = "room:state"
                       /\ inbox'[c][n + 2].ev = "chat:history"
                       /\ inbox'[c][n + 3].ev = "user:list"
                       /\ \E u \in inbox'[c][n + 3].p : u.uuid = tasks[t].ev.uuid]_vars

\* c1's chat message failed and c1 was told so; c1 sent it again and holds
\* the entry of the retry.
C19_Witness ==
    \E t1, t2 \in TaskIds :
        /\ RetryOf(t1, t2)
        /\ tasks[t2].kind = "chat" /\ tasks[t2].pc = "done" /\ tasks[t2].conn = "c1"
        /\ \E i, j \in 1..Len(inbox["c1"]) :
              /\ i < j
              /\ inbox["c1"][i].ev = "room:error"
              /\ inbox["c1"][j].ev = "chat:message" /\ inbox["c1"][j].p.id = t2
        /\ \A i \in 1..Len(inbox["c2"]) : inbox["c2"][i].ev # "room:error"

\* ------------------------------------------------------------ claim C15

\* The INSERT of addMember takes effect for a join.
Registers(t) ==
    /\ tasks[t].kind = "join" /\ tasks[t].pc = "add"
    /\ tasks'[t].pc = "touch"

\* C15: after a join has registered presence, the table holds exactly one
\* row for its (room, identity), with the name and avatar of that join,
\* whatever row the identity had before and whichever connection had
\* registered it; the rows of other identities are as they were.
C15_OneEntryLatestWins ==
    [][\A t \in TaskIds :
          Registers(t) =>
            LET r == tasks[t].room
                u == tasks[t].ev.uuid
            IN  /\ {x \in members' : x.room_id = r /\ x.uuid = u}
                      = {[room_id |-> r, uuid |-> u, name |-> tasks[t].ev.name,
                          avatar |-> tasks[t].ev.avatar]}
                /\ {x \in members' : ~(x.room_id = r /\ x.uuid = u)}
                      = {x \in members : ~(x.room_id = r /\ x.uuid = u)}]_vars

\* u1, registered by c1 as ann, was registered again by c2 as bob while c1
\* is still connected: the one row of u1 carries bob.
C15_Witness ==
    /\ sock["c1"].status = "open" /\ sock["c1"].data.name = "ann"
    /\ sock["c2"].status = "open" /\ sock["c2"].data.uuid = "u1"
    /\ {x \in members : x.uuid = "u1"} = {Row(Member("u1", "bob"))}
    /\ \E t \in TaskIds :
          /\ tasks[t].kind = "join" /\ tasks[t].conn = "c2"
          /\ tasks[t].pc = "done" /\ tasks[t].ev.uuid = "u1"

\* ------------------------------------------------ SpecSignal: signalling

\* The three events with what rides in sdp or candidate: a description, or
\* null.
SignalMessages ==
    {<<"webrtc:offer", V("sdp")>>, <<"webrtc:answer", Null>>,
     <<"webrtc:ice", V("sdp")>>, <<"webrtc:ice", Null>>}

\* u9 is the identity of no connection.
Targets == {"u1", "u2", "u9"}

\* c1 is joined in r1 as u1.  c2 comes to r1 and joins as u1 (a reconnect) or
\* as u2, c3 comes to r2 and joins as u2; c1 sends signalling messages and
\* may leave.
NextSignal ==
    \/ \E c \in {"c2", "c3"} : Connect(c)
    \/ \E data \in PresencePayloads :
          Len(tasks) < 1 + MaxSignalTasks /\ RoomJoinRecv("c2", data)
    \/ Len(tasks) < 1 + MaxSignalTasks /\ RoomJoinRecv("c3", Member("u2", "cat"))
    \/ Len(tasks) < 1 + MaxSignalTasks /\ Disconnect("c1")
    \/ \E m \in SignalMessages, to \in Targets :
          Len(tasks) < 1 + MaxSignalTasks /\ Signal("c1", m[1], to, m[2])
    \/ \E t \in TaskIds : JoinStep(t)
    \/ \E t \in TaskIds : DiscRemove(t)
    \/ \E t \in TaskIds : DiscUsers(t)

SpecSignal == OneJoined /\ [][NextSignal]_vars

\* A signalling message is handled.
Signals(t) ==
    /\ t = Len(tasks) + 1 /\ Len(tasks') = t
    /\ tasks'[t].kind = "signal"

\* The connected sockets of room r that are bound to identity u.
LiveOf(r, u) ==
    {d \in Conns : /\ sock[d].status = "open" /\ nsRoom(d) = r
                   /\ sock[d].data.set /\ sock[d].data.uuid = u}

\* The connections a step hands something.
Handed == {d \in Conns : inbox'[d] # inbox[d]}

\* The completed joins that bound identity u in room r to a socket that is
\* still connected and still bound to u.
BindingJoins(r, u) ==
    {tj \in TaskIds : /\ tasks[tj].kind = "join" /\ tasks[tj].pc = "done"
                      /\ tasks[tj].room = r /\ tasks[tj].ev.uuid = u
                      /\ tasks[tj].conn \in LiveOf(r, u)}

\* C16: a signalling message for an identity that has joined is handed to
\* no connection but the one of the identity's latest completed join.
C16_LatestConnectionGetsSignal ==
    [][Signals(Len(tasks) + 1) =>
          LET t == Len(tasks) + 1
              joins == BindingJoins(nsRoom(tasks'[t].conn), tasks'[t].ev.to)
          IN  \A tj \in joins :
                 (\A x \in joins : x <= tj) => Handed \subseteq {tasks[tj].conn}]_vars

\* C17: a signalling message sent by a connection bound to an identity is
\* handed to at most one connection; that connection is connected, is in the
\* sender's room and is bound to the target identity, and what it is handed is
\* the event with from = the sender's identity and the payload as sent.  When
\* exactly one connection of the room is bound to the target, it is handed
\* the message, except for a webrtc:ice whose candidate is falsy, which is
\* handed to nobody.
C17_SignalRouting ==
    [][Signals(Len(tasks) + 1) =>
          LET t == Len(tasks) + 1
              c == tasks'[t].conn
              e == tasks'[t].ev
              live == LiveOf(nsRoom(c), e.to)
          IN  sock[c].data.set =>
                /\ Cardinality(Handed) <= 1
                /\ \A d \in Handed :
                      /\ d \in live
                      /\ inbox'[d] = Append(inbox[d],
                            Msg(e.event, [from |-> V(sock[c].data.uuid),
                                          payload |-> e.payload]))
                /\ (Cardinality(live) = 1
                      /\ ~(e.event = "webrtc:ice" /\ Falsy(e.payload)))
                   => Handed = live]_vars

\* c1 (u1) sent an answer with payload null to u2 while u2 was bound in r1
\* (c2) and in r2 (c3): c2 holds it with from u1, c3 holds nothing of it.
C17_Witness ==
    \E t \in TaskIds :
        /\ tasks[t].kind = "signal" /\ tasks[t].conn = "c1"
        /\ tasks[t].ev = [event |-> "webrtc:answer", to |-> "u2", payload |-> Null]
        /\ sock["c3"].status = "open" /\ sock["c3"].data.uuid = "u2"
        /\ sock["c2"].status = "open" /\ sock["c2"].data.uuid = "u2"
        /\ Len(inbox["c2"]) > 0
        /\ inbox["c2"][Len(inbox["c2"])] =
              Msg("webrtc:answer", [from |-> V("u1"), payload |-> Null])
        /\ \A i \in 1..Len(inbox["c3"]) : inbox["c3"][i].ev # "webrtc:answer"

\* C18: a signalling message for an identity no connected socket of the
\* sender's room is bound to is handled to the end, hands no connection
\* anything (no error to the sender either), emits nothing through io and
\* leaves the store and the sockets as they were.
C18_NoTargetNoOp ==
    [][Signals(Len(tasks) + 1) =>
          LET t == Len(tasks) + 1
          IN  LiveOf(nsRoom(tasks'[t].conn), tasks'[t].ev.to) = {} =>
                /\ tasks'[t].pc = "done"
                /\ inbox' = inbox
                /\ mainEmits' = mainEmits
                /\ rooms' = rooms /\ members' = members /\ chats' = chats
                /\ sock' = sock]_vars

\* c1 sent an offer to u2 while the only connection bound to u2 was c3, in
\* r2: nobody holds an offer.
C18_Witness ==
    \E t \in TaskIds :
        /\ tasks[t].kind = "signal" /\ tasks[t].conn = "c1"
        /\ tasks[t].ev.event = "webrtc:offer" /\ tasks[t].ev.to = "u2"
        /\ sock["c3"].status = "open" /\ sock["c3"].data.uuid = "u2"
        /\ LiveOf("r1", "u2") = {}
        /\ sock["c2"].status = "open"
        /\ \A c \in Conns : \A i \in 1..Len(inbox[c]) : inbox[c][i].ev # "webrtc:offer"

\* ------------------------------------------------------------ claim C21

\* A playlist:update or theme:update handler runs its last step.
UpdateCompletes(t) ==
    /\ tasks[t].kind \in {"playlist", "theme"} /\ tasks[t].pc = "touch"
    /\ tasks'[t].pc = "done"

\* C21: when a playlist:update or theme:update has been handled, every
\* connection in the room, the sender included, is handed the message with
\* the new value.
C21_UpdateReachesRoom ==
    [][\A t \in TaskIds :
          UpdateCompletes(t) =>
            \A c \in InRoom(tasks[t].room) :
               inbox'[c] = Append(inbox[c],
                  Msg(IF tasks[t].kind = "playlist" THEN "playlist:update"
                      ELSE "theme:update", tasks[t].ev))]_vars

\* ------------------------------------------- SpecState: the stored state

\* Bodies of POST /api/rooms: without state, and with partial states.
CreateBodies ==
    {[hasState |-> FALSE, state |-> EmptyObj],
     [hasState |-> TRUE, state |-> [EmptyObj EXCEPT !.playlist = V(<<"b">>)]],
     [hasState |-> TRUE, state |-> [EmptyObj EXCEPT !.theme = V("dark"),
                                                    !.time = V(5)]]}

\* playlist:update and theme:update payloads, with and without their value.
StatePlaylists == {[playlist |-> V(<<"a">>)], [playlist |-> Absent]}
StateThemes == {[theme |-> V("dark")], [theme |-> Absent]}

CreateStep(t) ==
    \/ CreateRead(t)
    \/ CreateWrite(t)

\* c1 is joined in r1; r2 does not exist.  c2 comes to r1 and joins, c3 comes
\* to r2 and joins; c1 sends playback, playlist and theme events; rooms are
\* created over HTTP with the id of r1 or of r2.
NextState ==
    \/ \E c \in {"c2", "c3"} : Connect(c)
    \/ Len(tasks) < 1 + MaxStateTasks /\ RoomJoinRecv("c2", Member("u2", "bob"))
    \/ Len(tasks) < 1 + MaxStateTasks /\ RoomJoinRecv("c3", Member("u3", "cat"))
    \/ \E data \in SomeVideoEvents :
          Len(tasks) < 1 + MaxStateTasks /\ VideoActionRecv("c1", data)
    \/ \E data \in StatePlaylists :
          Len(tasks) < 1 + MaxStateTasks /\ PlaylistUpdateRecv("c1", "r1", data)
    \/ \E data \in StateThemes :
          Len(tasks) < 1 + MaxStateTasks /\ ThemeUpdateRecv("c1", "r1", data)
    \/ \E r \in Rooms, body \in CreateBodies :
          Len(tasks) < 1 + MaxStateTasks /\ RoomsPostRecv(r, body)
    \/ \E t \in TaskIds : MutStep(t)
    \/ \E t \in TaskIds : JoinStep(t)
    \/ \E t \in TaskIds : CreateStep(t)

SpecState == OneJoined /\ [][NextState]_vars

\* The partial state a handler passes to upsertRoomState.
upsertArg(t) ==
    IF tasks[t].kind = "join" THEN EmptyObj
    ELSE IF tasks[t].kind = "create" THEN createState(tasks[t].ev)
    ELSE tasks[t].state

\* The read of an upsertRoomState call returns and the merge is computed.
MergeComputes(t) ==
    /\ tasks[t].pc \in {"ensure_read", "upsert_read", "create_read"}
    /\ tasks'[t].pc \in {"ensure_write", "upsert_write", "create_write"}

\* The INSERT of an upsertRoomState call takes effect.
MergeWrites(t) ==
    /\ tasks[t].pc \in {"ensure_write", "upsert_write", "create_write"}
    /\ tasks'[t].pc \in {"add", "touch", "done"}

\* What a reader gets for a field stored with value x.
ReadBack(f, x) == IF x \in {Absent, Undef} THEN defaultState[f] ELSE x

\* Every other handler had finished when handler t was received.
Alone(t) == (TaskIds \ {t}) \subseteq tasks[t].after

\* ------------------------------------------------------------ claim C22

\* C22: a merge takes, for every field, the partial's value when the partial
\* has the field and the stored value (the default when the room has no row)
\* when it has not, and what it writes reads back as that.  A playlist:update
\* that carries a playlist and does not overlap another handler leaves the
\* room with exactly the payload's playlist and with the source, isPlaying,
\* time, lastActionTs and theme it had.
C22_MergeFrame ==
    [][\A t \in TaskIds :
          /\ MergeComputes(t) =>
                LET partial == upsertArg(t)
                    r == tasks[t].room
                    existing == IF rooms[r].exists THEN getRoomState(r)
                                ELSE defaultState
                IN  \A f \in Fields :
                       tasks'[t].merged[f] =
                          IF partial[f] = Absent THEN existing[f] ELSE partial[f]
          /\ MergeWrites(t) =>
                \A f \in Fields :
                   readState(rooms', tasks[t].room)[f]
                      = ReadBack(f, tasks[t].merged[f])
          /\ (/\ MergeWrites(t) /\ tasks[t].kind = "playlist" /\ Alone(t)
              /\ Supplied(tasks[t].ev.playlist)) =>
                \A f \in Fields :
                   readState(rooms', tasks[t].room)[f] =
                      IF f = "playlist" THEN tasks[t].ev.playlist
                      ELSE readState(rooms, tasks[t].room)[f]]_vars

\* After a load of v1 was handled, a room was created over r1 with theme and
\* time only: source and playlist are as they were, theme and time are the
\* request's.
C22_Witness ==
    \E t1, t2 \in TaskIds :
        /\ tasks[t1].kind = "video" /\ tasks[t1].ev.type = "load"
        /\ tasks[t2].kind = "create" /\ tasks[t2].room = "r1"
        /\ tasks[t2].ev.hasState /\ tasks[t2].ev.state.theme = V("dark")
        /\ t1 \in tasks[t2].after /\ tasks[t2].pc = "done"
        /\ Stored.source = V("v1") /\ Stored.time = V(5)
        /\ Stored.theme = V("dark") /\ Stored.playlist = V(<< >>)

\* ------------------------------------------------------------ claim C23

\* The fields a client is handed, and the value each has in a room nobody has
\* set it in.
ClientFields == {"source", "isPlaying", "time", "playlist", "theme"}

InitialValue(f) ==
    IF f = "source" THEN Null
    ELSE IF f = "isPlaying" THEN V(FALSE)
    ELSE IF f = "time" THEN V(0)
    ELSE IF f = "playlist" THEN V(<< >>)
    ELSE V("default")

\* The INSERT of handler t creates the row of its room.
Creates(t) ==
    /\ MergeWrites(t)
    /\ ~rooms[tasks[t].room].exists

\* C23: the state read of a room that has just been created, by a join or by
\* a creation request, has source null, isPlaying false, time 0, playlist []
\* and theme "default", but for the fields the creation request itself gave.
C23_FreshRoomDefaults ==
    [][\A t \in TaskIds :
          Creates(t) =>
            /\ rooms'[tasks[t].room].exists
            /\ \A f \in ClientFields :
                  readState(rooms', tasks[t].room)[f] =
                     IF upsertArg(t)[f] = Absent THEN InitialValue(f)
                     ELSE upsertArg(t)[f]]_vars

\* r2 was created by a request without state and by nothing else: it reads
\* as the five defaults.
C23_Witness ==
    /\ \E t \in TaskIds :
          /\ tasks[t].kind = "create" /\ tasks[t].room = "r2"
          /\ ~tasks[t].ev.hasState /\ tasks[t].pc = "done"
    /\ \A t \in TaskIds : tasks[t].room = "r2" => tasks[t].kind = "create"
    /\ \A f \in ClientFields : getRoomState("r2")[f] = InitialValue(f)

\* ------------------------------------------------------------ claim C24

\* Handler t gives field f a value: a video:action gives isPlaying when it is
\* a play or a pause, source and time when it carries them; playlist:update
\* and theme:update give their field when the payload has it; a creation
\* request gives the fields of its state.
Gives(t, f) ==
    LET e == tasks[t].ev
    IN  IF tasks[t].kind = "video"
        THEN \/ f = "source" /\ Supplied(e.source)
             \/ f = "isPlaying" /\ e.type \in {"play", "pause"}
             \/ f = "time" /\ Supplied(e.targetTime)
        ELSE IF tasks[t].kind = "playlist" THEN f = "playlist" /\ e.playlist # Absent
        ELSE IF tasks[t].kind = "theme" THEN f = "theme" /\ e.theme # Absent
        ELSE IF tasks[t].kind = "create" THEN createState(e)[f] # Absent
        ELSE FALSE

\* The room:state messages the connections hold.
RoomStates ==
    UNION {{inbox[c][i].p : i \in {k \in 1..Len(inbox[c]) :
                                       inbox[c][k].ev = "room:state"}} :
              c \in Conns}

\* A state with every client field present; only source may be null.
Complete(st) ==
    \A f \in ClientFields :
       /\ st[f] \notin {Absent, Undef}
       /\ f # "source" => st[f] # Null

CreatesOver(t) ==
    /\ tasks[t].kind = "create" /\ tasks[t].pc = "create_write"
    /\ tasks'[t].pc = "done"
    /\ rooms[tasks[t].room].exists

\* C30: a creation request with the id of an existing room, not overlapping
\* another handler, leaves every field its body does not give as it was; and
\* when the request before it, finished, had the same body, it leaves the
\* state as it was.
C30_CreateMerges ==
    [][\A t \in TaskIds :
          (CreatesOver(t) /\ Alone(t)) =>
            LET r == tasks[t].room
                body == tasks[t].ev
            IN  /\ \A f \in Fields :
                      (~body.hasState \/ body.state[f] = Absent)
                         => readState(rooms', r)[f] = readState(rooms, r)[f]
                /\ (/\ t > 1 /\ tasks[t - 1].kind = "create"
                    /\ tasks[t - 1].room = r /\ tasks[t - 1].ev = body)
                   => readState(rooms', r) = readState(rooms, r)]_vars

\* ------------------------------------------------------------ claim C25

\* A handler of a room-scoped event runs its last step and ends normally.
EventCompletes(t) ==
    /\ tasks[t].kind \in {"video", "chat", "react", "playlist", "theme"}
    /\ InFlight(t)
    /\ tasks'[t].pc = "done"

\* C25: when the handler of a video:action, chat:message, chat:reaction,
\* playlist:update or theme:update ends, the last_active of its room is a
\* clock reading taken no earlier than the event was received.
C25_EventTouchesRoom ==
    [][\A t \in TaskIds :
          (EventCompletes(t) /\ rooms[tasks[t].room].exists) =>
             rooms'[tasks[t].room].last_active >= tasks[t].t0]_vars

\* ------------------------------------------------ SpecReaper: the sweep

\* c1 and c2 are joined in r1, which was last active at 0.  c3 comes to r2
\* and joins, r2 is created over HTTP, c1 sends chat messages, c1 and c2
\* leave; the interval fires and its DELETE runs; store statements may fail;
\* the clock runs past the idle threshold.
NextReaper ==
    \/ Connect("c3")
    \/ Len(tasks) < 2 + MaxReaperTasks /\ RoomJoinRecv("c3", Member("u3", "cat"))
    \/ Len(tasks) < 2 + MaxReaperTasks
          /\ RoomsPostRecv("r2", [hasState |-> FALSE, state |-> EmptyObj])
    \/ Len(tasks) < 2 + MaxReaperTasks
          /\ ChatMessageRecv("c1", [sender |-> Sender("u1", "ann"), text |-> V("hi")])
    \/ Len(tasks) < 2 + MaxReaperTasks /\ ReaperTick
    \/ \E t \in TaskIds : ReapDelete(t)
    \/ \E t \in TaskIds : JoinStep(t)
    \/ \E t \in TaskIds : CreateStep(t)
    \/ \E t \in TaskIds : ChatStep(t)
    \/ \E t \in TaskIds : StoreFails(t)
    \/ TickTo(MaxReaperClock)

SpecReaper == BothJoined /\ [][NextReaper]_vars

\* The DELETE of a sweep takes effect.
Reaps(t) ==
    /\ tasks[t].kind = "reap" /\ tasks[t].pc = "delete"
    /\ tasks'[t].pc = "done"

\* ------------------------------------------------------------ claim C26

\* C26: the DELETE of a sweep with cutoff c removes the rooms whose
\* last_active is below c and no other, and returns their number.
C26_ReapsBelowCutoff ==
    [][\A t \in TaskIds :
          Reaps(t) =>
            LET c == tasks[t].ev.cutoff
                idle == {r \in Rooms : rooms[r].exists /\ rooms[r].last_active < c}
            IN  /\ \A r \in Rooms :
                      rooms'[r] = IF r \in idle THEN NoRow ELSE rooms[r]
                /\ tasks'[t].deleted = Cardinality(idle)]_vars

\* A sweep with cutoff 1 has run over r1, last active at 0, and r2, last
\* active at 1: it returned 1, r1 is gone and r2 is there.
C26_Witness ==
    \E t \in TaskIds :
        /\ tasks[t].kind = "reap" /\ tasks[t].pc = "done"
        /\ tasks[t].ev.cutoff = 1 /\ tasks[t].deleted = 1
        /\ ~rooms["r1"].exists
        /\ rooms["r2"].exists /\ rooms["r2"].last_active = 1

\* ------------------------------------------------------------ claim C27

\* C27: a sweep leaves a room that no socket is connected to, and that was
\* active within the idle threshold before the interval fired, as it is:
\* its row, its state as read, its members and its chat entries.
C27_PresenceDoesNotMatter ==
    [][\A t \in TaskIds :
          Reaps(t) =>
            \A r \in Rooms :
               (/\ rooms[r].exists /\ InRoom(r) = {}
                /\ rooms[r].last_active >= tasks[t].t0 - IdleMs) =>
                  /\ rooms'[r] = rooms[r]
                  /\ readState(rooms', r) = readState(rooms, r)
                  /\ readState(rooms', r) # NoState
                  /\ {m \in members' : m.room_id = r} = {m \in members : m.room_id = r}
                  /\ {x \in chats' : x.room_id = r} = {x \in chats : x.room_id = r}]_vars

\* r2, created over HTTP, has never had a connection; a sweep received after
\* its creation deleted r1, which has two, and left r2.
C27_Witness ==
    \E t1, t2 \in TaskIds :
        /\ tasks[t1].kind = "create" /\ tasks[t1].pc = "done"
        /\ tasks[t2].kind = "reap" /\ tasks[t2].pc = "done"
        /\ t1 \in tasks[t2].after /\ tasks[t2].deleted = 1
        /\ InRoom("r2") = {} /\ InRoom("r1") = {"c1", "c2"}
        /\ rooms["r2"].exists /\ ~rooms["r1"].exists
        /\ getRoomState("r2") = defaultState

\* ------------------------------------------------------------ claim C28

\* C28: every chat entry and every membership row is of a room that exists.
C28_NoOrphans ==
    /\ \A x \in chats : rooms[x.room_id].exists
    /\ \A m \in members : rooms[m.room_id].exists

\* A chat message of c1 was saved in r1 and a sweep received after it
\* deleted r1: no chat entry and no membership row is left.
C28_Witness ==
    \E t1, t2 \in TaskIds :
        /\ tasks[t1].kind = "chat" /\ tasks[t1].pc = "done"
        /\ tasks[t2].kind = "reap" /\ tasks[t2].pc = "done"
        /\ t1 \in tasks[t2].after /\ tasks[t2].deleted = 1
        /\ ~rooms["r1"].exists
        /\ chats = {} /\ members = {}

\* ------------------------------------------------------------ claim C29

\* C29: no sweep ends with its rejection leaving the interval's callback.
C29_SweepFailureAbsorbed ==
    \A t \in TaskIds : tasks[t].kind = "reap" => tasks[t].pc # "rejected"

\* ------------------------------------------------------------ claim C36

\* The INSERT of a join's ensure step takes effect on a room that exists.
EnsureOver(t) ==
    /\ tasks[t].kind = "join" /\ tasks[t].pc = "ensure_write"
    /\ tasks'[t].pc = "add"
    /\ rooms[tasks[t].room].exists

\* C36: the ensure step of a join into a room that exists leaves the stored
\* state of the room as it is, whatever handlers run beside it.
C36_JoinKeepsState ==
    [][\A t \in TaskIds :
          EnsureOver(t) =>
             readState(rooms', tasks[t].room) = readState(rooms, tasks[t].room)]_vars

\* ------------------------------------------------------------ claim C38

\* The row of the entry of chat handler t is in the table.
Persisted(t) == \E x \in chats : x.id = t

\* Some connection has been handed the entry of chat handler t.
Broadcast(t) ==
    \E c \in Conns : \E i \in 1..Len(inbox[c]) :
        inbox[c][i].ev = "chat:message" /\ inbox[c][i].p.id = t

\* C38: once a chat:message handler has ended, its entry is in the table if
\* and only if it has been broadcast.
C38_BroadcastIffPersisted ==
    \A t \in TaskIds :
        (tasks[t].kind = "chat" /\ ~InFlight(t)) => (Persisted(t) <=> Broadcast(t))

\* ------------------------------------------------------------ claim C39

\* C39: no step takes the lastActionTs stored for a room from one value to a
\* smaller one.
C39_LastActionTsGrows ==
    [][\A r \in Rooms :
          LET old == rooms[r].state.lastActionTs
              new == rooms'[r].state.lastActionTs
          IN  (/\ rooms[r].exists /\ rooms'[r].exists
               /\ Supplied(old) /\ Supplied(new)) => new[1] >= old[1]]_vars

\* ------------------------------------------------------------ claim C40

\* A state-mutating video:action handler relays its message and ends.
VideoRelaysStored(t) ==
    /\ tasks[t].kind = "video" /\ tasks[t].pc = "touch"
    /\ tasks'[t].pc = "done"
    /\ tasks[t].ev.type \in StateTypes

\* C40: the serverTimeMs a state-mutating video:action is relayed with is the
\* lastActionTs its handler stored.
C40_RelayStampIsStored ==
    [][\A t \in TaskIds :
          VideoRelaysStored(t) => tasks[t].merged.lastActionTs = V(tasks[t].t0)]_vars

\* ------------------------------------------------------------ claim C33

\* Connection c is connected and a join of it, as the identity it is bound
\* to, has completed.
LiveJoined(c) ==
    /\ sock[c].status = "open" /\ sock[c].data.set
    /\ \E t \in TaskIds :
          /\ tasks[t].kind = "join" /\ tasks[t].conn = c /\ tasks[t].pc = "done"
          /\ tasks[t].ev.uuid = sock[c].data.uuid

\* C33: when no handler is in flight and no store statement has failed, the
\* identity of every connected connection whose join has completed is in the
\* membership list of its room.
C33_LiveMembersListed ==
    (Quiescent /\ faults = 0) =>
       \A c \in Conns :
          LiveJoined(c) => IsMember(nsRoom(c), sock[c].data.uuid)

\* ------------------------------------------------------------ claim C35

\* C35: after a join has ended with room:error, the identity it attempted,
\* if no other join in the room is for it, is not in the membership list of
\* the room and no connected socket of the room is bound to it.
C35_FailedJoinLeavesNothing ==
    \A t \in TaskIds :
       (/\ tasks[t].kind = "join" /\ tasks[t].pc = "error"
        /\ \A x \in TaskIds \ {t} :
              tasks[x].kind = "join" => tasks[x].ev.uuid # tasks[t].ev.uuid) =>
          /\ ~IsMember(tasks[t].room, tasks[t].ev.uuid)
          /\ LiveOf(tasks[t].room, tasks[t].ev.uuid) = {}

\* ------------------------------------------------------------ claim C37

\* C37: when no handler is in flight and no store statement has failed, the
\* last user:list held by every connected connection whose join has completed
\* is the membership list of its room.
C37_LastListIsFinal ==
    (Quiescent /\ faults = 0) =>
       \A c \in Conns :
          (LiveJoined(c) /\ UserLists(c) # {}) =>
             LET last == CHOOSE i \in UserLists(c) : \A k \in UserLists(c) : k <= i
             IN  inbox[c][last].p = getUsersInRoom(nsRoom(c))

\* ------------------------------------- SpecRebind: joining more than once

\* c1 is joined in r1 as u1.  c1 sends room:join again, under either
\* identity; c2 comes; the connections leave.  No store statement fails.
NextRebind ==
    \/ Connect("c2")
    \/ \E data \in JoinPayloads :
          Len(tasks) < 1 + MaxRebindTasks /\ RoomJoinRecv("c1", data)
    \/ \E c \in {"c1", "c2"} : Len(tasks) < 1 + MaxRebindTasks /\ Disconnect(c)
    \/ \E t \in TaskIds : JoinStep(t)
    \/ \E t \in TaskIds : DiscRemove(t)
    \/ \E t \in TaskIds : DiscUsers(t)

SpecRebind == OneJoined /\ [][NextRebind]_vars

\* ------------------------------------------------------------ claim C34

\* The disconnect handler td of a connection has finished, and every join of
\* that connection had completed when the transport closed.
LeftAfterJoins(td) ==
    /\ tasks[td].kind = "disc" /\ tasks[td].pc = "done"
    /\ \A tj \in TaskIds :
          (tasks[tj].kind = "join" /\ tasks[tj].conn = tasks[td].conn)
             => (tj \in tasks[td].after /\ tasks[tj].pc = "done")

\* C34: once the disconnect handler of a connection has finished, an
\* identity the connection registered by a completed room:join is in the
\* membership list of the room only if a join of another connection
\* registered it too.
C34_NothingLeftBehind ==
    \A td \in TaskIds :
       LeftAfterJoins(td) =>
          \A tj \in TaskIds :
             (/\ tasks[tj].kind = "join" /\ tasks[tj].conn = tasks[td].conn
              /\ IsMember(tasks[tj].room, tasks[tj].ev.uuid)) =>
                \E x \in TaskIds :
                   /\ tasks[x].kind = "join" /\ tasks[x].conn # tasks[td].conn
                   /\ tasks[x].room = tasks[tj].room
                   /\ tasks[x].ev.uuid = tasks[tj].ev.uuid

\* ------------------------------------------- SpecClient: the client (App.tsx)

\* The identity a client joins with and puts into what it sends.
userUUID(c) == OwnPayload(c).uuid

\* Lines 654-676: the two flags of the socket's listeners and the joined
\* state they set.  What a connection has received is its inbox.
hasReceivedState(c) ==
    \E i \in 1..Len(inbox[c]) : inbox[c][i].ev = "room:state"

hasReceivedHistory(c) ==
    \E i \in 1..Len(inbox[c]) : inbox[c][i].ev = "chat:history"

joined(c) == hasReceivedState(c) /\ hasReceivedHistory(c)

\* Line 464: id: `temp-${Date.now()}`, a value no id of the server equals.
TempId(ts) == -(1 + ts)

\* Lines 453-478: nothing is sent before joined; the message is appended to
\* the local list under a temporary id and emitted.
handleSendMessage(c, text) ==
    /\ joined(c)
    /\ ChatMessageRecv(c, [sender |-> Sender(userUUID(c), OwnPayload(c).name),
                           text |-> V(text), id |-> TempId(now)])

\* Lines 447-451: the file is appended to the client's playlist, which
\* nothing ever sets, and emitted.
handleUpload(c, file) ==
    PlaylistUpdateRecv(c, nsRoom(c), [playlist |-> V(<<file>>)])

\* The position of the last chat:history in what c has received, or 0.
LastHistory(c) ==
    LET at == {i \in 1..Len(inbox[c]) : inbox[c][i].ev = "chat:history"}
    IN  IF at = {} THEN 0 ELSE CHOOSE i \in at : \A k \in at : k <= i

\* Lines 604-610: a broadcast entry is appended unless its sender is the
\* client itself.  The ids of the entries appended since the last history.
handleChatMessage(c) ==
    {inbox[c][i].p.id : i \in {k \in (LastHistory(c) + 1)..Len(inbox[c]) :
                                  /\ inbox[c][k].ev = "chat:message"
                                  /\ inbox[c][k].p.sender[1].uuid # userUUID(c)}}

\* The ids of the client's local messages: the last history received (669),
\* the entries of others appended since, and the client's own copies (474),
\* which it makes only after the history has arrived.
messages(c) ==
    (IF LastHistory(c) = 0 THEN {}
     ELSE {m.id : m \in inbox[c][LastHistory(c)].p})
    \cup handleChatMessage(c)
    \cup {tasks[t].ev.id : t \in {x \in TaskIds : /\ tasks[x].kind = "chat"
                                                   /\ tasks[x].conn = c}}

\* Lines 867-877: a reaction to a local message is emitted with that
\* message's id.
onReact(c, msgId) ==
    /\ msgId \in messages(c)
    /\ ChatReactionRecv(c, [roomId |-> nsRoom(c), msgId |-> msgId, emoji |-> "+1"])

\* Lines 689-703: the 'connect' listener has emitted room:join, which the
\* server receives before anything the client emits later.
JoinSent(c) ==
    \E t \in TaskIds : tasks[t].kind = "join" /\ tasks[t].conn = c

\* c1 is joined in r1.  c2 connects and its client sends room:join; the
\* clients send messages, upload files and react.
NextClient ==
    \/ Connect("c2")
    \/ /\ Len(tasks) < 1 + MaxClientTasks
       /\ ~JoinSent("c2")
       /\ RoomJoinRecv("c2", OwnPayload("c2"))
    \/ \E c \in {"c1", "c2"} :
          /\ Len(tasks) < 1 + MaxClientTasks /\ JoinSent(c)
          /\ handleSendMessage(c, "hi")
    \/ \E c \in {"c1", "c2"} :
          /\ Len(tasks) < 1 + MaxClientTasks /\ JoinSent(c)
          /\ handleUpload(c, "a")
    \/ \E c \in {"c1", "c2"}, msgId \in {-1, 2, 3, 4} :
          /\ Len(tasks) < 1 + MaxClientTasks /\ JoinSent(c)
          /\ onReact(c, msgId)
    \/ \E t \in TaskIds : JoinStep(t)
    \/ \E t \in TaskIds : ChatStep(t)
    \/ \E t \in TaskIds : MutStep(t)
    \/ \E t \in TaskIds : ReactRead(t)

SpecClient == OneJoined /\ [][NextClient]_vars

\* ------------------------------------------------------------ claim C31

\* A chat:message, chat:reaction or playlist:update of connection c is
\* emitted.
Emits(t, c) ==
    /\ t = Len(tasks) + 1 /\ Len(tasks') = t
    /\ tasks'[t].kind \in {"chat", "react", "playlist"}
    /\ tasks'[t].conn = c

\* C31: a client emits chat:message, chat:reaction or playlist:update on a
\* connection only after the connection has received room:state and
\* chat:history.
C31_NothingSentBeforeSnapshots ==
    [][\A c \in Conns : Emits(Len(tasks) + 1, c) => joined(c)]_vars

\* ------------------------------------------------------------ claim C32

\* The ids under which client c holds the entry of chat handler t: the
\* server's id, and the temporary id of its own copy when c sent the entry.
Copies(c, t) ==
    {m \in messages(c) : m = t \/ (tasks[t].conn = c /\ m = tasks[t].ev.id)}

\* Connection c has been handed the broadcast of the entry of handler t.
Received(c, t) ==
    \E i \in 1..Len(inbox[c]) :
        inbox[c][i].ev = "chat:message" /\ inbox[c][i].p.id = t

\* C32: a client that has received the broadcast of an entry holds the entry
\* once, under the id the server gave it; so does the client that sent it.
C32_ReconciledById ==
    \A t \in TaskIds : \A c \in Conns :
        (tasks[t].kind = "chat" /\ Received(c, t) /\ LastHistory(c) > 0)
           => Copies(c, t) = {t}

====
